---- MODULE Spec2Model ----
(***************************************************************************)
(* Client-side data-access layer for job records (optimized batch variant, *)
(* src/unnamed/part_000 lines 348-850): the in-memory cache with TTL and   *)
(* insertion-order eviction, withRetry, and the read operations            *)
(* fetchAllJobs, fetchJobById, fetchJobsByIds, fetchJobsWithFilters,       *)
(* prefetchJobs, clearJobCache and getServiceHealth.                       *)
(*                                                                         *)
(* JavaScript values are modelled with uniform shapes:                     *)
(*   - a string is a sequence of one-character strings;                    *)
(*   - a raw argument is [t |-> "str" | "null" | "num", s |-> chars];      *)
(*   - a cached / returned datum is [t |-> "null" | "job" | "list",        *)
(*     v |-> sequence of job records];                                     *)
(*   - the Map `cache` is the sequence of its entries in insertion order.  *)
(***************************************************************************)
EXTENDS Integers, Sequences, FiniteSets, TLC

\* ------------------------------------------------------------------------
\* Program constants
\* ------------------------------------------------------------------------
CACHE_TIME == 5 * 60 * 1000
MAX_CACHE_SIZE == 50
MAX_RETRIES == 2
FIRESTORE_IN_LIMIT == 10
RETRY_DELAY == 1000

\* ------------------------------------------------------------------------
\* Bounds of the model
\* ------------------------------------------------------------------------
\* number of invocation slots (calls that may be in flight at once)
MaxCalls == 2
\* invocations started in one behaviour
MaxInvocations == 2
\* direct uses of the cache layer in one behaviour
MaxCacheOps == 3
\* the clock takes the instants k * RETRY_DELAY, k in 0..MaxDelayTicks, and
\* p * CACHE_TIME, p in 1..MaxPeriods
MaxPeriods == 1
MaxDelayTicks == 2
\* the longest id list given to fetchJobsByIds
MaxBatch == 25

\* ------------------------------------------------------------------------
\* JavaScript values
\* ------------------------------------------------------------------------
Str(s) == [t |-> "str", s |-> s]
JsNull == [t |-> "null", s |-> <<>>]
\* a number, s its digits
JsNum(digits) == [t |-> "num", s |-> digits]
Undefined == [t |-> "undefined", s |-> <<>>]

\* Array.prototype.slice(from, to) on a sequence, 0-based, end exclusive
Slice(a, from, to) ==
    LET hi == IF to < Len(a) THEN to ELSE Len(a)
    IN  IF from >= hi THEN <<>> ELSE SubSeq(a, from + 1, hi)

RECURSIVE TrimLeft(_)
TrimLeft(s) == IF s # <<>> /\ Head(s) = " " THEN TrimLeft(Tail(s)) ELSE s

RECURSIVE TrimRight(_)
TrimRight(s) ==
    IF s # <<>> /\ s[Len(s)] = " " THEN TrimRight(SubSeq(s, 1, Len(s) - 1)) ELSE s

\* String.prototype.trim
Trim(s) == TrimRight(TrimLeft(s))

\* numbers: an integer, or NaN
NumberValue(n) == [nan |-> FALSE, n |-> n]
NaN == [nan |-> TRUE, n |-> 0]

DigitChars == <<"0", "1", "2", "3", "4", "5", "6", "7", "8", "9">>
IsDigit(ch) == \E i \in 1..Len(DigitChars) : DigitChars[i] = ch
DigitValue(ch) == (CHOOSE i \in 1..Len(DigitChars) : DigitChars[i] = ch) - 1

\* the longest prefix of s made of digits
RECURSIVE DigitPrefix(_)
DigitPrefix(s) ==
    IF s # <<>> /\ IsDigit(Head(s)) THEN <<Head(s)>> \o DigitPrefix(Tail(s)) ELSE <<>>

RECURSIVE Decimal(_)
Decimal(d) ==
    IF d = <<>> THEN 0
    ELSE 10 * Decimal(SubSeq(d, 1, Len(d) - 1)) + DigitValue(d[Len(d)])

HasSign(s) == s # <<>> /\ Head(s) \in {"-", "+"}
Unsigned(s) == IF HasSign(s) THEN Tail(s) ELSE s
Signed(s, n) == IF HasSign(s) /\ Head(s) = "-" THEN 0 - n ELSE n

\* parseFloat(x) on integer literals: leading blanks are skipped and the
\* longest numeric prefix counts
parseFloat(x) ==
    LET s == TrimLeft(x.s)
        d == DigitPrefix(Unsigned(s))
    IN  IF d = <<>> THEN NaN ELSE NumberValue(Signed(s, Decimal(d)))

\* Number(x), the conversion isNaN applies, on integer literals: the whole
\* trimmed string must be a literal, the blank string is 0
ToNumber(x) ==
    CASE x.t = "undefined" -> NaN
      [] x.t = "null" -> NumberValue(0)
      [] OTHER ->
           LET s == Trim(x.s)
               d == DigitPrefix(Unsigned(s))
           IN  IF s = <<>> THEN NumberValue(0)
               ELSE IF d # <<>> /\ d = Unsigned(s)
               THEN NumberValue(Signed(s, Decimal(d)))
               ELSE NaN

\* the truthiness of a value
ToBoolean(x) ==
    CASE x.t \in {"undefined", "null"} -> FALSE
      [] x.t = "str" -> x.s # <<>>
      [] OTHER -> ~ToNumber(x).nan /\ ToNumber(x).n # 0

\* Date.parse on a string of characters: the date-only ISO form
\* YYYY-MM-DD is an instant (held as a day count increasing with the
\* date), a string without that form is NaN
DateParse(x) ==
    LET s == x.s
        isoForm == /\ Len(s) = 10
                   /\ s[5] = "-" /\ s[8] = "-"
                   /\ \A i \in {1, 2, 3, 4, 6, 7, 9, 10} : IsDigit(s[i])
        year == Decimal(SubSeq(s, 1, 4))
        month == Decimal(SubSeq(s, 6, 7))
        day == Decimal(SubSeq(s, 9, 10))
    IN  IF isoForm /\ month \in 1..12 /\ day \in 1..28
        THEN NumberValue((year * 12 + month) * 31 + day)
        ELSE NaN

\* the id test without the trim
IsValidJobIdNonEmpty(x) == x.t = "str" /\ x.s # <<>>

\* the id test without the typeof
IsValidJobIdAnyType(x) == x.s # <<>> /\ Trim(x.s) # <<>>

\* id && typeof id === "string" && id.trim() !== ""
IsValidJobId(x) == x.t = "str" /\ x.s # <<>> /\ Trim(x.s) # <<>>

\* data values
NullData == [t |-> "null", v |-> <<>>]
JobData(j) == [t |-> "job", v |-> <<j>>]
ListData(js) == [t |-> "list", v |-> js]

\* JavaScript truthiness of a datum: null is falsy; objects and arrays
\* (the empty array included) are truthy
Truthy(d) == d.t # "null"

\* ------------------------------------------------------------------------
\* Cache layer
\* ------------------------------------------------------------------------
AllJobsKey == [pfx |-> "all_jobs_sorted", arg |-> <<>>]
JobKey(id) == [pfx |-> "job_", arg |-> id]

NoEntry == [present |-> FALSE, data |-> NullData, timestamp |-> 0]

CacheKeys(c) == {c[i].key : i \in 1..Len(c)}

\* Map.prototype.get: the entry stored under key, or NoEntry (undefined)
CacheLookup(c, key) ==
    IF \E i \in 1..Len(c) : c[i].key = key
    THEN LET i == CHOOSE i \in 1..Len(c) : c[i].key = key
         IN  [present |-> TRUE, data |-> c[i].data, timestamp |-> c[i].timestamp]
    ELSE NoEntry

\* Map.prototype.delete
CacheDelete(c, key) == SelectSeq(c, LAMBDA e : e.key # key)

\* Map.prototype.set: an existing key keeps its position, a new key is appended
CacheSet(c, key, data, t) ==
    LET e == [key |-> key, data |-> data, timestamp |-> t]
    IN  IF \E i \in 1..Len(c) : c[i].key = key
        THEN [i \in 1..Len(c) |-> IF c[i].key = key THEN e ELSE c[i]]
        ELSE Append(c, e)

\* isCacheValid with the subtraction reversed
isCacheValidReversed(timestamp, t) == timestamp - t > CACHE_TIME

\* isCacheValid counting an entry aged exactly CACHE_TIME as valid
isCacheValidInclusive(timestamp, t) == t - timestamp <= CACHE_TIME

\* isCacheValid is given Date.now() as t
isCacheValid(timestamp, t) == t - timestamp < CACHE_TIME

\* getFromCache: [data, cache] - the value returned and the cache afterwards
getFromCache(c, key, t) ==
    LET cached == CacheLookup(c, key)
    IN  IF cached.present /\ isCacheValid(cached.timestamp, t)
        THEN [data |-> cached.data, cache |-> c]
        ELSE [data |-> NullData, cache |-> CacheDelete(c, key)]

\* saveToCache with the capacity test off by one (size > MAX_CACHE_SIZE)
saveToCacheLate(c, key, data, t) ==
    LET c1 == IF Len(c) > MAX_CACHE_SIZE THEN CacheDelete(c, Head(c).key) ELSE c
    IN  CacheSet(c1, key, data, t)

\* saveToCache: the cache afterwards
saveToCache(c, key, data, t) ==
    LET c1 == IF Len(c) >= MAX_CACHE_SIZE THEN CacheDelete(c, Head(c).key) ELSE c
    IN  CacheSet(c1, key, data, t)

\* ------------------------------------------------------------------------
\* Remote store (document database, external collaborator)
\* ------------------------------------------------------------------------
\* document ids of the "jobs" collection, in the store's document-id order
DocIds == << <<"a">>, <<"b">>, <<"c">> >>

IdSet == {DocIds[i] : i \in 1..Len(DocIds)}

\* the fields a job form fills in, in the order postJob requires them, and
\* the fields postJob adds
FormFields ==
    <<"date", "hospital", "location", "position", "salary", "schedule", "type">>

NoFields ==
    [date |-> Undefined, hospital |-> Undefined, location |-> Undefined,
     position |-> Undefined, salary |-> Undefined, schedule |-> Undefined,
     type |-> Undefined, createdBy |-> Undefined, createdById |-> Undefined]

\* a stored document: `wellFormed` says whether data() yields a non-null
\* object; createdAt is a native timestamp ("ts"), a raw stored value ("raw")
\* or missing ("none"); fields are the other fields of the payload
Doc(ex, wf, kind, n, st) ==
    [exists |-> ex, wellFormed |-> wf,
     createdAt |-> [t |-> kind, n |-> n], updatedAt |-> [t |-> kind, n |-> n],
     status |-> st, fields |-> NoFields]

NoDoc == Doc(FALSE, FALSE, "none", 0, "")

\* value?.toDate?.()?.toISOString() || value
NormalizeTimestamp(ts) == IF ts.t = "ts" THEN [t |-> "iso", n |-> ts.n] ELSE ts

\* processJobData: NullData for a payload that is not a non-null object
processJobData(id, d) ==
    IF ~d.wellFormed
    THEN NullData
    ELSE JobData([id |-> id,
                  createdAt |-> NormalizeTimestamp(d.createdAt),
                  updatedAt |-> NormalizeTimestamp(d.updatedAt),
                  status |-> d.status, fields |-> d.fields])

\* the ids of the existing documents satisfying `ok`, ordered by createdAt
\* descending (documents without the ordering field are not returned)
RECURSIVE OrderedDesc(_, _)
OrderedDesc(st, ids) ==
    IF ids = {} THEN <<>>
    ELSE LET top == CHOOSE i \in ids :
                      \A j \in ids : st[j].createdAt.n <= st[i].createdAt.n
         IN  <<top>> \o OrderedDesc(st, ids \ {top})

\* getDocs(query(collection("jobs"), orderBy("createdAt", "desc")))
SnapshotAll(st) ==
    OrderedDesc(st, {i \in IdSet : st[i].exists /\ st[i].createdAt.t # "none"})

\* getDocs(query(collection("jobs"), where(documentId(), "in", chunk)))
SnapshotIn(st, chunk) ==
    SelectSeq(DocIds, LAMBDA i : st[i].exists /\ \E k \in 1..Len(chunk) : chunk[k] = i)

\* the documents of a snapshot that processJobData accepts, in snapshot order
RECURSIVE ProcessedJobs(_, _)
ProcessedJobs(st, ids) ==
    IF ids = <<>> THEN <<>>
    ELSE LET p == processJobData(Head(ids), st[Head(ids)])
         IN  (IF Truthy(p) THEN p.v ELSE <<>>) \o ProcessedJobs(st, Tail(ids))

\* snapshot.forEach(... saveToCache(`job_${processedJob.id}`, processedJob))
RECURSIVE CacheJobs(_, _, _)
CacheJobs(c, jobs, t) ==
    IF jobs = <<>> THEN c
    ELSE CacheJobs(saveToCache(c, JobKey(Head(jobs).id), JobData(Head(jobs)), t),
                   Tail(jobs), t)

\* ------------------------------------------------------------------------
\* Local Maps of fetchJobsByIds (cachedResults, fetchedJobs): sets of
\* [id, data] with at most one element per id
\* ------------------------------------------------------------------------
MapHas(m, id) == \E e \in m : e.id = id
MapGet(m, id) == IF MapHas(m, id) THEN (CHOOSE e \in m : e.id = id).data ELSE NullData
MapSet(m, id, d) == {e \in m : e.id # id} \cup {[id |-> id, data |-> d]}

RECURSIVE MapSetJobs(_, _)
MapSetJobs(m, jobs) ==
    IF jobs = <<>> THEN m
    ELSE MapSetJobs(MapSet(m, Head(jobs).id, JobData(Head(jobs))), Tail(jobs))

\* ------------------------------------------------------------------------
\* Retry policy
\* ------------------------------------------------------------------------
NoError == [code |-> "", message |-> <<>>]

\* the failures a remote request can end with
RemoteErrors ==
    { [code |-> "unavailable", message |-> <<"service", "unavailable">>],
      [code |-> "deadline-exceeded", message |-> <<"deadline", "exceeded">>],
      [code |-> "unknown", message |-> <<"network", "request", "failed">>],
      [code |-> "permission-denied", message |-> <<"insufficient", "permissions">>] }

\* String.prototype.includes on a message held as its words
Includes(message, word) == \E i \in 1..Len(message) : message[i] = word

\* isRetryable classifying every error as transient
isRetryableAll(error) == TRUE

isRetryable(error) ==
    \/ error.code = "unavailable"
    \/ error.code = "deadline-exceeded"
    \/ Includes(error.message, "network")

\* one withRetry invocation chain: the operation it wraps is awaiting the
\* store ("net"), the chain is in its delay ("sleep"), or it has settled.
\* attempts counts the calls of the operation, delays the setTimeout waits,
\* failures the attempts that threw, thrown what the last of them threw.
NewUnit(ids) ==
    [ids |-> ids, pc |-> "net", retries |-> MAX_RETRIES, attempts |-> 1,
     delays |-> 0, wake |-> 0, error |-> NoError, failures |-> 0,
     thrown |-> NoError]

\* withRetry retrying while retries >= 0
withRetryCatchOneMore(u, error, t) ==
    IF u.retries >= 0 /\ isRetryable(error)
    THEN [u EXCEPT !.pc = "sleep", !.wake = t + RETRY_DELAY, !.delays = @ + 1]
    ELSE [u EXCEPT !.pc = "rejected", !.error = error]

\* withRetry, catch branch: the operation failed with `error` at time t
withRetryCatch(u, error, t) ==
    IF u.retries > 0 /\ isRetryable(error)
    THEN [u EXCEPT !.pc = "sleep", !.wake = t + RETRY_DELAY, !.delays = @ + 1]
    ELSE [u EXCEPT !.pc = "rejected", !.error = error]

\* withRetry retrying with an undiminished budget
withRetryAgainSameBudget(u) ==
    [u EXCEPT !.pc = "net", !.attempts = @ + 1, !.wake = 0]

\* withRetry after the delay: return withRetry(operation, retries - 1)
withRetryAgain(u) ==
    [u EXCEPT !.pc = "net", !.retries = @ - 1, !.attempts = @ + 1,
              !.wake = 0]

\* the operation of chain u of `call` throws `error` at time t; the first
\* chain to reject rejects the promise the call awaits
OperationThrows(call, u, error, t) ==
    LET unit == withRetryCatch(call.units[u], error, t)
    IN  [call EXCEPT
           !.units[u] = [unit EXCEPT !.failures = @ + 1, !.thrown = error],
           !.caught = IF unit.pc = "rejected" /\ @ = NoError THEN error ELSE @]

\* chunkArray
RECURSIVE chunkFrom(_, _, _)
chunkFrom(array, chunkSize, i) ==
    IF i < Len(array)
    THEN <<Slice(array, i, i + chunkSize)>> \o chunkFrom(array, chunkSize, i + chunkSize)
    ELSE <<>>

\* chunkArray slicing one element too many into each chunk
chunkArrayWide(array, chunkSize) == chunkFrom(array, chunkSize + 1, 0)

chunkArray(array, chunkSize) == chunkFrom(array, chunkSize, 0)

\* ------------------------------------------------------------------------
\* State
\* ------------------------------------------------------------------------
VARIABLES
    now,      \* Date.now(), in milliseconds
    cache,    \* the module-level Map, as the sequence of its entries
    store,    \* the remote "jobs" collection: document id -> document
    calls,    \* invocation slot -> the invocation running (or last run) in it
    health,   \* the cache part of the last getServiceHealth() report
    started,  \* number of invocations started so far
    probe,    \* the last direct use of the cache layer and what it observed
    hook      \* the useJobs hook: its module-level jobsCache and its state

vars == <<now, cache, store, calls, health, started, probe, hook>>

Slots == 1..MaxCalls

\* the instants the clock takes
TimePoints ==
    {k * RETRY_DELAY : k \in 0..MaxDelayTicks} \cup {p * CACHE_TIME : p \in 1..MaxPeriods}

\* what the cache holds under key at time t: whether there is an entry, its
\* data, and whether it is younger than CACHE_TIME
Observe(c, key, t) ==
    LET e == CacheLookup(c, key)
    IN  [present |-> e.present, data |-> e.data,
         young |-> e.present /\ t < e.timestamp + CACHE_TIME]

NoObservation == [present |-> FALSE, data |-> NullData, young |-> FALSE]

NoProbe ==
    [op |-> "none", key |-> AllJobsKey, data |-> NullData, before |-> NoEntry,
     at |-> 0, seq |-> 0, firstInserted |-> <<>>, lastPut |-> <<>>]

\* a filters object: the limit and status options (each may be missing)
Filters(hasLimit, lim, status) ==
    [hasLimit |-> hasLimit, limit |-> lim, status |-> status]

\* an invocation: its arguments, the locals that live across an await, the
\* withRetry chains it started (one per chunk for fetchJobsByIds), and how
\* it ended.  input and startEntry record the id arguments and what the
\* cache held under `key` when the invocation began, startData the data the
\* cache held for each valid id of a batch when the invocation began.
\* prefetch is the promise of the prefetchJobs call that made the invocation
\* ("none" without one): "pending", "resolved" (with undefined, the
\* function returns no value) or "rejected".  order is the history of a
\* fetchJobsByIds invocation's requests: the indices of its chunks in the
\* order in which their queries were answered.  read is what the store
\* held when it evaluated the query of the attempt numbered read.attempt
\* (where the evaluation and the arrival of the answer are told apart).
EmptyStore == [i \in IdSet |-> NoDoc]

NoRead == [attempt |-> 0, store |-> EmptyStore]

IdleCall ==
    [op |-> "idle", pc |-> "idle", via |-> "", prefetch |-> "none",
     useCache |-> FALSE,
     input |-> <<>>,
     key |-> AllJobsKey, filters |-> Filters(FALSE, 0, ""),
     startEntry |-> NoObservation, startData |-> <<>>,
     ids |-> <<>>, cachedResults |-> {}, uncachedIds |-> <<>>,
     units |-> <<>>, order |-> <<>>, read |-> NoRead,
     fetchedJobs |-> {}, caught |-> NoError,
     value |-> NullData, logged |-> <<>>,
     outcome |-> "none", result |-> <<>>, message |-> "",
     stale |-> FALSE]

\* the useJobs hook before its first loadJobs: jobsCache (data and timestamp
\* are null; timestamp 0 stands for null, both are falsy) and the state of
\* the component (error "" stands for null).  waiting is the continuation
\* the hook attached to the service call of each slot.
IdleHook ==
    [data |-> NullData, timestamp |-> 0,
     jobs |-> ListData(<<>>), loading |-> TRUE, error |-> "",
     refreshing |-> FALSE,
     waiting |-> [s \in Slots |-> "none"]]

InFlight(call) ==
    \E u \in 1..Len(call.units) : call.units[u].pc \in {"net", "sleep"}

\* a slot can take a new invocation once the previous one has ended and
\* none of its requests is still outstanding
Available(s) == calls[s].pc \in {"idle", "done"} /\ ~InFlight(calls[s])

\* a new invocation takes the lowest such slot (slots are interchangeable)
Free(s) ==
    /\ started < MaxInvocations
    /\ Available(s)
    /\ \A r \in 1..(s - 1) : ~Available(r)

Returned(call, result) ==
    [call EXCEPT !.pc = "done", !.outcome = "return", !.result = result]

Thrown(call, message) ==
    [call EXCEPT !.pc = "done", !.outcome = "throw", !.message = message]

\* logError(operation, error, context): purely observational
logError(call, operation, error) ==
    [call EXCEPT !.logged = Append(@, [operation |-> operation, error |-> error])]

\* Promise.all over the withRetry chains: settled once every chain has
\* resolved, or as soon as one has rejected
AllResolved(call) == \A u \in 1..Len(call.units) : call.units[u].pc = "resolved"
\* a Promise.all that waits for every chain to resolve, whatever rejects
SettledOnSuccess(call) == AllResolved(call)

Settled(call) == AllResolved(call) \/ call.caught # NoError

\* ------------------------------------------------------------------------
\* fetchAllJobs
\* ------------------------------------------------------------------------
AllJobsError == "Unable to load jobs. Please check your connection and try again."

\* the synchronous part looking into the cache whatever useCache says
fetchAllJobsBeginAlwaysCache(c, t, useCache) ==
    LET g == getFromCache(c, AllJobsKey, t)
        call == [IdleCall EXCEPT !.op = "fetchAllJobs", !.useCache = useCache,
                                 !.key = AllJobsKey,
                                 !.startEntry = Observe(c, AllJobsKey, t)]
    IN  IF Truthy(g.data)
        THEN [cache |-> g.cache, call |-> Returned(call, <<g.data>>)]
        ELSE [cache |-> g.cache,
              call |-> [call EXCEPT !.pc = "await", !.units = <<NewUnit(<<>>)>>]]

\* the synchronous part, up to the first await
fetchAllJobsBegin(c, t, useCache) ==
    LET g == IF useCache THEN getFromCache(c, AllJobsKey, t)
             ELSE [data |-> NullData, cache |-> c]
        call == [IdleCall EXCEPT !.op = "fetchAllJobs", !.useCache = useCache,
                                 !.key = AllJobsKey,
                                 !.startEntry = Observe(c, AllJobsKey, t)]
    IN  IF useCache /\ Truthy(g.data)
        THEN [cache |-> g.cache, call |-> Returned(call, <<g.data>>)]
        ELSE [cache |-> g.cache,
              call |-> [call EXCEPT !.pc = "await", !.units = <<NewUnit(<<>>)>>]]

\* the wrapped operation, once getDocs has answered
fetchAllJobsOperation(c, t, st, call, u) ==
    LET jobs == ProcessedJobs(st, SnapshotAll(st))
    IN  [cache |-> CacheJobs(c, jobs, t),
         call |-> [call EXCEPT !.units[u].pc = "resolved",
                               !.value = ListData(jobs)]]

\* the catch block falling back to the cache without looking at useCache
fetchAllJobsResumeAnyCache(c, t, call) ==
    IF AllResolved(call)
    THEN [cache |-> saveToCache(c, AllJobsKey, call.value, t),
          call |-> Returned(call, <<call.value>>)]
    ELSE LET logged == logError(call, "fetchAllJobs", call.caught)
             staleCache == CacheLookup(c, AllJobsKey)
         IN  [cache |-> c,
              call |-> IF staleCache.present
                       THEN Returned([logged EXCEPT !.stale = TRUE], <<staleCache.data>>)
                       ELSE Thrown(logged, AllJobsError)]

\* after `await withRetry(...)`: the rest of the try block, or the catch block
fetchAllJobsResume(c, t, call) ==
    IF AllResolved(call)
    THEN [cache |-> saveToCache(c, AllJobsKey, call.value, t),
          call |-> Returned(call, <<call.value>>)]
    ELSE LET logged == logError(call, "fetchAllJobs", call.caught)
             staleCache == CacheLookup(c, AllJobsKey)
         IN  [cache |-> c,
              call |-> IF call.useCache /\ staleCache.present
                       THEN Returned([logged EXCEPT !.stale = TRUE], <<staleCache.data>>)
                       ELSE Thrown(logged, AllJobsError)]

FetchAllJobs(s, useCache) ==
    /\ Free(s)
    /\ LET r == fetchAllJobsBegin(cache, now, useCache)
       IN  /\ cache' = r.cache
           /\ calls' = [calls EXCEPT ![s] = r.call]
    /\ started' = started + 1
    /\ UNCHANGED <<now, store, health, probe, hook>>

\* ------------------------------------------------------------------------
\* fetchJobById
\* ------------------------------------------------------------------------
InvalidIdError == "Please provide a valid job ID"
JobDetailsError ==
    "Unable to load job details. Please check your connection and try again."

fetchJobByIdBegin(c, t, jobId, useCache) ==
    IF ~IsValidJobId(jobId)
    THEN [cache |-> c,
          call |-> Thrown([IdleCall EXCEPT !.op = "fetchJobById", !.input = <<jobId>>],
                          InvalidIdError)]
    ELSE LET cleanJobId == Trim(jobId.s)
             cacheKey == JobKey(cleanJobId)
             g == IF useCache THEN getFromCache(c, cacheKey, t)
                  ELSE [data |-> NullData, cache |-> c]
             call == [IdleCall EXCEPT !.op = "fetchJobById", !.useCache = useCache,
                                      !.input = <<jobId>>,
                                      !.key = cacheKey, !.ids = <<cleanJobId>>,
                                      !.startEntry = Observe(c, cacheKey, t)]
         IN  IF useCache /\ g.data # NullData
             THEN [cache |-> g.cache, call |-> Returned(call, <<g.data>>)]
             ELSE [cache |-> g.cache,
                   call |-> [call EXCEPT !.pc = "await",
                                         !.units = <<NewUnit(<<cleanJobId>>)>>]]

\* the wrapped operation, once getDoc has answered
fetchJobByIdOperation(c, t, st, call, u) ==
    LET cleanJobId == call.ids[1]
        docSnap == IF cleanJobId \in DOMAIN st THEN st[cleanJobId] ELSE NoDoc
    IN  [cache |-> c,
         call |-> [call EXCEPT !.units[u].pc = "resolved",
                               !.value = IF ~docSnap.exists THEN NullData
                                         ELSE processJobData(cleanJobId, docSnap)]]

\* fetchJobById caching only the jobs it found
fetchJobByIdResumeSkipNull(c, t, call) ==
    IF AllResolved(call)
    THEN [cache |-> IF Truthy(call.value) THEN saveToCache(c, call.key, call.value, t)
                    ELSE c,
          call |-> Returned(call, <<call.value>>)]
    ELSE LET logged == logError(call, "fetchJobById", call.caught)
             staleCache == CacheLookup(c, call.key)
         IN  [cache |-> c,
              call |-> IF call.useCache /\ staleCache.present
                       THEN Returned([logged EXCEPT !.stale = TRUE], <<staleCache.data>>)
                       ELSE Thrown(logged, JobDetailsError)]

fetchJobByIdResume(c, t, call) ==
    IF AllResolved(call)
    THEN [cache |-> saveToCache(c, call.key, call.value, t),
          call |-> Returned(call, <<call.value>>)]
    ELSE LET logged == logError(call, "fetchJobById", call.caught)
             staleCache == CacheLookup(c, call.key)
         IN  [cache |-> c,
              call |-> IF call.useCache /\ staleCache.present
                       THEN Returned([logged EXCEPT !.stale = TRUE], <<staleCache.data>>)
                       ELSE Thrown(logged, JobDetailsError)]

FetchJobById(s, jobId, useCache) ==
    /\ Free(s)
    /\ LET r == fetchJobByIdBegin(cache, now, jobId, useCache)
       IN  /\ cache' = r.cache
           /\ calls' = [calls EXCEPT ![s] = r.call]
    /\ started' = started + 1
    /\ UNCHANGED <<now, store, health, probe, hook>>

\* ------------------------------------------------------------------------
\* fetchJobsByIds
\* ------------------------------------------------------------------------
BatchError == "Unable to load job details. Please try again."

\* the id filter without the trim
ValidJobIdsUntrimmed(items) ==
    LET valid == SelectSeq(items, IsValidJobId)
    IN  [i \in 1..Len(valid) |-> valid[i].s]

\* jobIds.filter(valid).map(trim); an argument is [isArray, items]
ValidJobIds(items) ==
    LET valid == SelectSeq(items, IsValidJobId)
    IN  [i \in 1..Len(valid) |-> Trim(valid[i].s)]

\* the cache check loop, for (const jobId of validJobIds); the loop state l
\* is [rest, cache, cachedResults, uncachedIds], rest the ids still to visit
RECURSIVE CachePartition(_, _)
CachePartition(t, l) ==
    IF l.rest = <<>> THEN l
    ELSE LET jobId == Head(l.rest)
             g == getFromCache(l.cache, JobKey(jobId), t)
         IN  CachePartition(t,
               IF g.data # NullData
               THEN [l EXCEPT !.rest = Tail(@), !.cache = g.cache,
                              !.cachedResults = MapSet(@, jobId, g.data)]
               ELSE [l EXCEPT !.rest = Tail(@), !.cache = g.cache,
                              !.uncachedIds = Append(@, jobId)])

\* validJobIds.map((id) => m.get(id) || null)
MapOver(ids, m) == [i \in 1..Len(ids) |-> MapGet(m, ids[i])]

fetchJobsByIdsBegin(c, t, jobIds, useCache, via) ==
    LET call0 == [IdleCall EXCEPT !.op = "fetchJobsByIds", !.useCache = useCache,
                                  !.via = via, !.input = jobIds.items]
        validJobIds == ValidJobIds(jobIds.items)
    IN  IF ~jobIds.isArray \/ Len(jobIds.items) = 0 \/ Len(validJobIds) = 0
        THEN [cache |-> c, call |-> Returned(call0, <<>>)]
        ELSE LET part == IF useCache
                         THEN CachePartition(t,
                                  [rest |-> validJobIds, cache |-> c,
                                   cachedResults |-> {}, uncachedIds |-> <<>>])
                         ELSE [cache |-> c, cachedResults |-> {},
                               uncachedIds |-> validJobIds]
                 idChunks == chunkArray(part.uncachedIds, FIRESTORE_IN_LIMIT)
                 call == [call0 EXCEPT !.ids = validJobIds,
                                       !.startData =
                                           [i \in 1..Len(validJobIds) |->
                                              CacheLookup(c, JobKey(validJobIds[i])).data],
                                       !.cachedResults = part.cachedResults,
                                       !.uncachedIds = part.uncachedIds]
             IN  IF Len(part.uncachedIds) = 0
                 THEN [cache |-> part.cache,
                       call |-> Returned(call, MapOver(validJobIds, part.cachedResults))]
                 ELSE [cache |-> part.cache,
                       call |-> [call EXCEPT
                                   !.pc = "await",
                                   !.units = [k \in 1..Len(idChunks) |->
                                                NewUnit(idChunks[k])]]]

\* the wrapped operation of one chunk, dropping the answer of a query whose
\* call has already ended
fetchJobsByIdsOperationCancelled(c, t, st, call, u) ==
    LET jobs == ProcessedJobs(st, SnapshotIn(st, call.units[u].ids))
    IN  [cache |-> IF call.pc = "done" THEN c ELSE CacheJobs(c, jobs, t),
         call |-> [call EXCEPT !.units[u].pc = "resolved",
                               !.order = Append(@, u),
                               !.fetchedJobs = MapSetJobs(@, jobs)]]
\* the wrapped operation of one chunk with a map of fetched jobs of its own,
\* the last chunk to complete replacing the map of the chunks before it
fetchJobsByIdsOperationLastWins(c, t, st, call, u) ==
    LET jobs == ProcessedJobs(st, SnapshotIn(st, call.units[u].ids))
    IN  [cache |-> CacheJobs(c, jobs, t),
         call |-> [call EXCEPT !.units[u].pc = "resolved",
                               !.order = Append(@, u),
                               !.fetchedJobs = MapSetJobs({}, jobs)]]
\* the wrapped operation of one chunk, once getDocs has answered
fetchJobsByIdsOperation(c, t, st, call, u) ==
    LET jobs == ProcessedJobs(st, SnapshotIn(st, call.units[u].ids))
    IN  [cache |-> CacheJobs(c, jobs, t),
         call |-> [call EXCEPT !.units[u].pc = "resolved",
                               !.order = Append(@, u),
                               !.fetchedJobs = MapSetJobs(@, jobs)]]

\* the loop over uncachedIds after Promise.all; the loop state l is
\* [rest, cache, fetchedJobs], rest the ids still to visit
RECURSIVE RecordNotFound(_, _, _)
RecordNotFound(t, useCache, l) ==
    IF l.rest = <<>> THEN l
    ELSE LET jobId == Head(l.rest)
             \* the loop state after this iteration
             after ==
               IF MapHas(l.fetchedJobs, jobId)
               THEN [l EXCEPT !.rest = Tail(@)]
               ELSE [l EXCEPT !.rest = Tail(@),
                              !.fetchedJobs = MapSet(@, jobId, NullData),
                              !.cache = IF useCache
                                        THEN saveToCache(@, JobKey(jobId), NullData, t)
                                        ELSE @]
         \* the next iteration starts from the computed state: m is a value,
         \* so each iteration is evaluated once
         IN  CHOOSE r \in {RecordNotFound(t, useCache, m) : m \in {after}} : TRUE

fetchJobsByIdsResume(c, t, call) ==
    IF AllResolved(call)
    THEN LET nf == RecordNotFound(t, call.useCache,
                       [rest |-> call.uncachedIds, cache |-> c,
                        fetchedJobs |-> call.fetchedJobs])
             finalResults ==
                 [i \in 1..Len(call.ids) |->
                    IF MapHas(call.cachedResults, call.ids[i])
                    THEN MapGet(call.cachedResults, call.ids[i])
                    ELSE MapGet(nf.fetchedJobs, call.ids[i])]
         IN  [cache |-> nf.cache,
              call |-> Returned([call EXCEPT !.fetchedJobs = nf.fetchedJobs],
                                finalResults)]
    ELSE LET logged == logError(call, "fetchJobsByIds", call.caught)
             fallbackResults ==
                 [i \in 1..Len(call.ids) |->
                    CacheLookup(c, JobKey(call.ids[i])).data]
         IN  [cache |-> c,
              call |-> IF call.useCache
                          /\ \E i \in 1..Len(call.ids) : fallbackResults[i] # NullData
                       THEN Returned([logged EXCEPT !.stale = TRUE], fallbackResults)
                       ELSE Thrown(logged, BatchError)]

FetchJobsByIds(s, jobIds, useCache) ==
    /\ Free(s)
    /\ LET r == fetchJobsByIdsBegin(cache, now, jobIds, useCache, "")
       IN  /\ cache' = r.cache
           /\ calls' = [calls EXCEPT ![s] = r.call]
    /\ started' = started + 1
    /\ UNCHANGED <<now, store, health, probe, hook>>

\* ------------------------------------------------------------------------
\* fetchJobsWithFilters
\* ------------------------------------------------------------------------
FilteredError == "Unable to load filtered jobs. Please try again."
DEFAULT_LIMIT == 50

\* JSON.stringify(filters), as the sequence of its name/value tokens
Stringify(f) ==
    (IF f.hasLimit THEN <<"limit", ToString(f.limit)>> ELSE <<>>)
    \o (IF f.status # "" THEN <<"status", f.status>> ELSE <<>>)

FilterCacheKey(f) == [pfx |-> "jobs_filtered_", arg |-> Stringify(f)]

\* getDocs of the composed query: orderBy createdAt desc, where status ==,
\* limit
SnapshotFiltered(st, f) ==
    LET limitCount == IF f.hasLimit THEN f.limit ELSE DEFAULT_LIMIT
        ordered == OrderedDesc(st, {i \in IdSet :
                       /\ st[i].exists
                       /\ st[i].createdAt.t # "none"
                       /\ (f.status # "" => st[i].status = f.status)})
    IN  IF limitCount # 0 THEN Slice(ordered, 0, limitCount) ELSE ordered

fetchJobsWithFiltersBegin(c, t, f, useCache) ==
    LET cacheKey == FilterCacheKey(f)
        g == IF useCache THEN getFromCache(c, cacheKey, t)
             ELSE [data |-> NullData, cache |-> c]
        call == [IdleCall EXCEPT !.op = "fetchJobsWithFilters",
                                 !.useCache = useCache, !.key = cacheKey,
                                 !.filters = f,
                                 !.startEntry = Observe(c, cacheKey, t)]
    IN  IF useCache /\ Truthy(g.data)
        THEN [cache |-> g.cache, call |-> Returned(call, <<g.data>>)]
        ELSE [cache |-> g.cache,
              call |-> [call EXCEPT !.pc = "await", !.units = <<NewUnit(<<>>)>>]]

fetchJobsWithFiltersOperation(c, t, st, call, u) ==
    LET jobs == ProcessedJobs(st, SnapshotFiltered(st, call.filters))
    IN  [cache |-> CacheJobs(c, jobs, t),
         call |-> [call EXCEPT !.units[u].pc = "resolved",
                               !.value = ListData(jobs)]]

\* the catch block letting the error it caught through
fetchJobsWithFiltersResumeRethrow(c, t, call) ==
    IF AllResolved(call)
    THEN [cache |-> saveToCache(c, call.key, call.value, t),
          call |-> Returned(call, <<call.value>>)]
    ELSE [cache |-> c,
          call |-> Thrown(logError(call, "fetchJobsWithFilters", call.caught),
                          call.caught.code)]

fetchJobsWithFiltersResume(c, t, call) ==
    IF AllResolved(call)
    THEN [cache |-> saveToCache(c, call.key, call.value, t),
          call |-> Returned(call, <<call.value>>)]
    ELSE [cache |-> c,
          call |-> Thrown(logError(call, "fetchJobsWithFilters", call.caught),
                          FilteredError)]

FetchJobsWithFilters(s, f, useCache) ==
    /\ Free(s)
    /\ LET r == fetchJobsWithFiltersBegin(cache, now, f, useCache)
       IN  /\ cache' = r.cache
           /\ calls' = [calls EXCEPT ![s] = r.call]
    /\ started' = started + 1
    /\ UNCHANGED <<now, store, health, probe, hook>>

\* ------------------------------------------------------------------------
\* prefetchJobs, clearJobCache, getServiceHealth
\* ------------------------------------------------------------------------
\* validIds.filter((id) => !getFromCache(`job_${id}`)): [cache, uncachedIds]
\* the loop state l is [rest, cache, uncachedIds]
RECURSIVE PrefetchFilter(_, _)
PrefetchFilter(t, l) ==
    IF l.rest = <<>> THEN l
    ELSE LET id == Head(l.rest)
         IN  IF id.t = "str" /\ id.s # <<>>
             THEN LET g == getFromCache(l.cache, JobKey(id.s), t)
                  IN  PrefetchFilter(t,
                        IF Truthy(g.data)
                        THEN [l EXCEPT !.rest = Tail(@), !.cache = g.cache]
                        ELSE [l EXCEPT !.rest = Tail(@), !.cache = g.cache,
                                       !.uncachedIds = Append(@, id)])
             ELSE PrefetchFilter(t, [l EXCEPT !.rest = Tail(@)])

\* prefetchJobs awaiting the batch fetch it starts and letting its
\* rejection through
prefetchJobsBeginAwaiting(c, t, jobIds) ==
    LET ended == Returned([IdleCall EXCEPT !.op = "prefetchJobs",
                                           !.prefetch = "resolved"], <<>>)
    IN  IF ~jobIds.isArray \/ Len(jobIds.items) = 0
        THEN [cache |-> c, call |-> ended]
        ELSE LET flt == PrefetchFilter(t, [rest |-> jobIds.items, cache |-> c,
                                           uncachedIds |-> <<>>])
                 batch == fetchJobsByIdsBegin(flt.cache, t,
                              [isArray |-> TRUE, items |-> flt.uncachedIds],
                              FALSE, "prefetchJobs")
             IN  IF Len(flt.uncachedIds) > 0
                 THEN [batch EXCEPT !.call.prefetch =
                          IF batch.call.pc = "await" THEN "pending" ELSE "resolved"]
                 ELSE [cache |-> flt.cache, call |-> ended]

\* prefetchJobs returns at once; the batch fetch it starts is not awaited
\* and runs on in the slot, its rejection handled by the .catch callback
prefetchJobsBegin(c, t, jobIds) ==
    LET ended == Returned([IdleCall EXCEPT !.op = "prefetchJobs",
                                           !.prefetch = "resolved"], <<>>)
    IN  IF ~jobIds.isArray \/ Len(jobIds.items) = 0
        THEN [cache |-> c, call |-> ended]
        ELSE LET flt == PrefetchFilter(t, [rest |-> jobIds.items, cache |-> c,
                                           uncachedIds |-> <<>>])
                 batch == fetchJobsByIdsBegin(flt.cache, t,
                              [isArray |-> TRUE, items |-> flt.uncachedIds],
                              FALSE, "prefetchJobs")
             IN  IF Len(flt.uncachedIds) > 0
                 THEN [batch EXCEPT !.call.prefetch = "resolved"]
                 ELSE [cache |-> flt.cache, call |-> ended]

PrefetchJobs(s, jobIds) ==
    /\ Free(s)
    /\ LET r == prefetchJobsBegin(cache, now, jobIds)
       IN  /\ cache' = r.cache
           /\ calls' = [calls EXCEPT ![s] = r.call]
    /\ started' = started + 1
    /\ UNCHANGED <<now, store, health, probe, hook>>

clearJobCache(c) == <<>>

ClearJobCache ==
    /\ started < MaxInvocations
    /\ cache' = clearJobCache(cache)
    /\ started' = started + 1
    /\ UNCHANGED <<now, store, calls, health, probe, hook>>

\* the cache section of the report
getServiceHealth(c, t) ==
    LET validCacheCount ==
            Cardinality({i \in 1..Len(c) : isCacheValid(c[i].timestamp, t)})
    IN  [total |-> Len(c), valid |-> validCacheCount,
         expired |-> Len(c) - validCacheCount]

\* ------------------------------------------------------------------------
\* fetchJobById of the basic service (src/services/jobs/fetch.js): the same
\* validation, cache check and catch block; the wrapped operation throws on
\* a payload that is not an object and copies the fields as they are
\* ------------------------------------------------------------------------
InvalidDataError ==
    [code |-> "", message |-> <<"Invalid", "job", "data", "received">>]

fetchJobByIdBasicBegin(c, t, jobId, useCache) ==
    LET r == fetchJobByIdBegin(c, t, jobId, useCache)
    IN  [r EXCEPT !.call.op = "fetchJobByIdBasic"]

\* the wrapped operation, once getDoc has answered
fetchJobByIdBasicOperation(c, t, st, call, u) ==
    LET cleanJobId == call.ids[1]
        docSnap == IF cleanJobId \in DOMAIN st THEN st[cleanJobId] ELSE NoDoc
    IN  [cache |-> c,
         call |-> IF ~docSnap.exists
                  THEN [call EXCEPT !.units[u].pc = "resolved", !.value = NullData]
                  ELSE IF ~docSnap.wellFormed
                  THEN OperationThrows(call, u, InvalidDataError, t)
                  ELSE [call EXCEPT
                          !.units[u].pc = "resolved",
                          !.value = JobData([id |-> cleanJobId,
                                             createdAt |-> docSnap.createdAt,
                                             updatedAt |-> docSnap.updatedAt,
                                             status |-> docSnap.status,
                                             fields |-> docSnap.fields])]]

FetchJobByIdBasic(s, jobId, useCache) ==
    /\ Free(s)
    /\ LET r == fetchJobByIdBasicBegin(cache, now, jobId, useCache)
       IN  /\ cache' = r.cache
           /\ calls' = [calls EXCEPT ![s] = r.call]
    /\ started' = started + 1
    /\ UNCHANGED <<now, store, health, probe, hook>>

\* ------------------------------------------------------------------------
\* fetchAllJobs of the basic service (src/services/jobs/fetch.js), the one
\* the useJobs hook imports: the aggregate entry is kept under "all_jobs",
\* the documents are listed in the store's order as {id, ...data}, and no
\* per-job entry is written
\* ------------------------------------------------------------------------
BasicAllJobsKey == [pfx |-> "all_jobs", arg |-> <<>>]

BasicAllJobsError ==
    "Unable to load jobs. Please check your connection and try again."

\* the synchronous part, up to the first await
fetchAllJobsBasicBegin(c, t, useCache) ==
    LET g == IF useCache THEN getFromCache(c, BasicAllJobsKey, t)
             ELSE [data |-> NullData, cache |-> c]
        call == [IdleCall EXCEPT !.op = "fetchAllJobsBasic", !.useCache = useCache,
                                 !.key = BasicAllJobsKey,
                                 !.startEntry = Observe(c, BasicAllJobsKey, t)]
    IN  IF useCache /\ Truthy(g.data)
        THEN [cache |-> g.cache, call |-> Returned(call, <<g.data>>)]
        ELSE [cache |-> g.cache,
              call |-> [call EXCEPT !.pc = "await", !.units = <<NewUnit(<<>>)>>]]

\* snapshot.forEach: the documents whose data() is an object, in the order
\* of the snapshot (document-id order)
BasicJobList(st) ==
    LET ids == SelectSeq(DocIds, LAMBDA i : st[i].exists /\ st[i].wellFormed)
    IN  [k \in 1..Len(ids) |->
           [id |-> ids[k],
            createdAt |-> st[ids[k]].createdAt,
            updatedAt |-> st[ids[k]].updatedAt,
            status |-> st[ids[k]].status,
            fields |-> st[ids[k]].fields]]

\* the wrapped operation, once getDocs has answered
fetchAllJobsBasicOperation(c, t, st, call, u) ==
    [cache |-> c,
     call |-> [call EXCEPT !.units[u].pc = "resolved",
                           !.value = ListData(BasicJobList(st))]]

\* after `await withRetry(...)`: the rest of the try block, or the catch block
fetchAllJobsBasicResume(c, t, call) ==
    IF AllResolved(call)
    THEN [cache |-> saveToCache(c, BasicAllJobsKey, call.value, t),
          call |-> Returned(call, <<call.value>>)]
    ELSE LET logged == logError(call, "fetchAllJobs", call.caught)
             staleCache == CacheLookup(c, BasicAllJobsKey)
         IN  [cache |-> c,
              call |-> IF call.useCache /\ staleCache.present
                       THEN Returned([logged EXCEPT !.stale = TRUE], <<staleCache.data>>)
                       ELSE Thrown(logged, BasicAllJobsError)]

\* ------------------------------------------------------------------------
\* postJob (the job posting service)
\* ------------------------------------------------------------------------
Err(message) == [code |-> "", message |-> message]

Required(field) == Err(<<field, "is", "required">>)
CannotBeEmpty(field) == Err(<<field, "cannot", "be", "empty">>)
SalaryError == Err(<<"Salary", "must", "be", "a", "positive", "number">>)
JobTypeError ==
    Err(<<"Job", "type", "must", "be", "either", "\"permanent\"", "or",
          "\"relieving\"">>)
DateError == Err(<<"Invalid", "date", "format">>)
JobDataError == Err(<<"Job", "data", "is", "required">>)
UserIdError == Err(<<"User", "ID", "is", "required">>)
UserNameError == Err(<<"User", "name", "is", "required">>)
NotAFunction(field) == Err(<<field, ".trim", "is", "not", "a", "function">>)
PostFailedMessage ==
    <<"Failed", "to", "post", "job.", "Please", "check", "your", "connection",
      "and", "try", "again.">>
PostedMessage == <<"Job", "posted", "successfully">>

JobTypes == {Str(<<"permanent">>), Str(<<"relieving">>)}

\* a job form object, and a jobData argument that is no object
Object(f) == [t |-> "object", f |-> f]
NoObject == [t |-> "null", f |-> NoFields]

\* the loop over the required fields: the error of the first field that
\* is falsy or a blank string
RECURSIVE RequiredLoop(_, _)
RequiredLoop(jobData, fields) ==
    IF fields = <<>> THEN NoError
    ELSE LET field == Head(fields)
             v == jobData[field]
         IN  IF ~ToBoolean(v) THEN Required(field)
             ELSE IF v.t = "str" /\ Trim(v.s) = <<>> THEN CannotBeEmpty(field)
             ELSE RequiredLoop(jobData, Tail(fields))

\* validateJobData without the salary test
validateJobDataAnySalary(jobData) ==
    LET missing == RequiredLoop(jobData, FormFields)
    IN  IF missing # NoError THEN missing
        ELSE IF jobData.type \notin JobTypes THEN JobTypeError
        ELSE IF DateParse(jobData.date).nan THEN DateError
        ELSE NoError

\* validateJobData: the error it throws, NoError when it returns
validateJobData(jobData) ==
    LET missing == RequiredLoop(jobData, FormFields)
    IN  IF missing # NoError THEN missing
        ELSE IF \/ ToNumber(jobData.salary).nan
                \/ (~parseFloat(jobData.salary).nan /\ parseFloat(jobData.salary).n <= 0)
        THEN SalaryError
        ELSE IF jobData.type \notin JobTypes THEN JobTypeError
        ELSE IF DateParse(jobData.date).nan THEN DateError
        ELSE NoError

\* the fields of cleanJobData that are trimmed
TrimmedFields == <<"hospital", "location", "position", "schedule">>

\* cleanJobData keeping the strings as they were typed
cleanJobDataUntrimmed(jobData, userId, userName) ==
    [date |-> jobData.date,
     hospital |-> jobData.hospital,
     location |-> jobData.location,
     position |-> jobData.position,
     salary |-> parseFloat(jobData.salary),
     schedule |-> jobData.schedule,
     type |-> jobData.type,
     createdBy |-> userName,
     createdById |-> userId]

\* cleanJobData, without createdAt and status (held by the document)
cleanJobData(jobData, userId, userName) ==
    [date |-> jobData.date,
     hospital |-> Str(Trim(jobData.hospital.s)),
     location |-> Str(Trim(jobData.location.s)),
     position |-> Str(Trim(jobData.position.s)),
     salary |-> parseFloat(jobData.salary),
     schedule |-> Str(Trim(jobData.schedule.s)),
     type |-> jobData.type,
     createdBy |-> Str(Trim(userName.s)),
     createdById |-> Str(Trim(userId.s))]

\* what the try block throws before it awaits, NoError when it reaches
\* the await
postJobThrows(jobData, userId, userName) ==
    LET notStrings == SelectSeq(TrimmedFields, LAMBDA f : jobData.f[f].t # "str")
    IN  IF jobData.t # "object" THEN JobDataError
        ELSE IF ~ToBoolean(userId) \/ userId.t # "str" \/ Trim(userId.s) = <<>>
        THEN UserIdError
        ELSE IF ~ToBoolean(userName) \/ userName.t # "str" \/ Trim(userName.s) = <<>>
        THEN UserNameError
        ELSE IF validateJobData(jobData.f) # NoError THEN validateJobData(jobData.f)
        ELSE IF notStrings # <<>> THEN NotAFunction(Head(notStrings))
        ELSE NoError

\* String.prototype.includes for a phrase of consecutive words
IncludesWords(message, words) ==
    \E i \in 0..(Len(message) - Len(words)) :
        \A k \in 1..Len(words) : message[i + k] = words[k]

PostResult(success, data, error, message) ==
    [success |-> success, data |-> data, error |-> error, message |-> message]

\* the catch block rethrowing what it caught
postJobCatchRethrow(call, error) ==
    Thrown(call, "postJob")

\* the catch block: report, then return the failure
postJobCatch(call, error) ==
    Returned(logError(call, "postJob", error),
             <<PostResult(FALSE, <<>>, error.message,
                          IF \/ IncludesWords(error.message, <<"required">>)
                             \/ IncludesWords(error.message, <<"must", "be">>)
                          THEN error.message
                          ELSE PostFailedMessage)>>)

postJobBegin(jobData, userId, userName) ==
    LET call == [IdleCall EXCEPT !.op = "postJob",
                                 !.input = <<jobData, userId, userName>>]
        error == postJobThrows(jobData, userId, userName)
    IN  IF error # NoError
        THEN postJobCatch(call, error)
        ELSE [call EXCEPT !.pc = "await",
                          !.value = [t |-> "clean",
                                     v |-> <<cleanJobData(jobData.f, userId, userName)>>],
                          !.units = <<NewUnit(<<>>)>>]

\* the document addDoc writes: the clean data, the server's timestamp and
\* the default status
PostedDoc(clean, t) ==
    [exists |-> TRUE, wellFormed |-> TRUE,
     createdAt |-> [t |-> "ts", n |-> t], updatedAt |-> [t |-> "none", n |-> 0],
     status |-> "active", fields |-> clean]

\* after the await: the success response, or the catch block
postJobResume(c, t, call) ==
    [cache |-> c,
     call |-> IF AllResolved(call)
              THEN Returned(call,
                     <<PostResult(TRUE,
                                  <<[id |-> call.ids[1],
                                     createdAt |-> [t |-> "iso", n |-> t],
                                     updatedAt |-> [t |-> "none", n |-> 0],
                                     status |-> "active",
                                     fields |-> call.value.v[1]]>>,
                                  <<>>, PostedMessage)>>)
              ELSE postJobCatch(call, call.caught)]

PostJob(s, jobData, userId, userName) ==
    /\ Free(s)
    /\ calls' = [calls EXCEPT ![s] = postJobBegin(jobData, userId, userName)]
    /\ started' = started + 1
    /\ UNCHANGED <<now, cache, store, health, probe, hook>>

\* the store accepts the addDoc request of slot s and assigns the new
\* document an id no document has
AddDocSuccess(s) ==
    /\ calls[s].op = "postJob"
    /\ Len(calls[s].units) = 1
    /\ calls[s].units[1].pc = "net"
    /\ \E id \in IdSet :
          /\ ~store[id].exists
          /\ store' = [store EXCEPT ![id] = PostedDoc(calls[s].value.v[1], now)]
          /\ calls' = [calls EXCEPT ![s].units[1].pc = "resolved",
                                    ![s].ids = <<id>>]
    /\ UNCHANGED <<now, cache, health, started, probe, hook>>

\* the caller of a successful postJob in slot r passes the id it was given
\* to fetchJobById, which runs in slot s
FetchPosted(r, s, useCache) ==
    /\ started < MaxInvocations
    /\ r # s
    /\ Available(s)
    /\ calls[r].op = "postJob" /\ calls[r].pc = "done"
    /\ calls[r].result[1].success
    /\ LET b == fetchJobByIdBegin(cache, now, Str(calls[r].result[1].data[1].id),
                                  useCache)
       IN  /\ cache' = b.cache
           /\ calls' = [calls EXCEPT ![s] = b.call]
    /\ started' = started + 1
    /\ UNCHANGED <<now, store, health, probe, hook>>

\* ------------------------------------------------------------------------
\* Steps shared by the operations
\* ------------------------------------------------------------------------
Operation(c, t, st, call, u) ==
    CASE call.op = "fetchAllJobs" -> fetchAllJobsOperation(c, t, st, call, u)
      [] call.op = "fetchAllJobsBasic" ->
             fetchAllJobsBasicOperation(c, t, st, call, u)
      [] call.op = "fetchJobById" -> fetchJobByIdOperation(c, t, st, call, u)
      [] call.op = "fetchJobByIdBasic" ->
             fetchJobByIdBasicOperation(c, t, st, call, u)
      [] call.op = "fetchJobsByIds" -> fetchJobsByIdsOperation(c, t, st, call, u)
      [] call.op = "fetchJobsWithFilters" ->
             fetchJobsWithFiltersOperation(c, t, st, call, u)

ResumeCall(c, t, call) ==
    CASE call.op = "fetchAllJobs" -> fetchAllJobsResume(c, t, call)
      [] call.op = "fetchAllJobsBasic" -> fetchAllJobsBasicResume(c, t, call)
      [] call.op \in {"fetchJobById", "fetchJobByIdBasic"} ->
             fetchJobByIdResume(c, t, call)
      [] call.op = "fetchJobsByIds" -> fetchJobsByIdsResume(c, t, call)
      [] call.op = "fetchJobsWithFilters" -> fetchJobsWithFiltersResume(c, t, call)
      [] call.op = "postJob" -> postJobResume(c, t, call)

\* the store answers the outstanding request of chain u of slot s
RemoteSuccess(s, u) ==
    /\ u \in 1..Len(calls[s].units)
    /\ calls[s].units[u].pc = "net"
    /\ calls[s].op # "postJob"
    /\ LET r == Operation(cache, now, store, calls[s], u)
       IN  /\ cache' = r.cache
           /\ calls' = [calls EXCEPT ![s] = r.call]
    /\ UNCHANGED <<now, store, health, started, probe, hook>>

\* the outstanding request of chain u of slot s fails
RemoteFailure(s, u, error) ==
    /\ u \in 1..Len(calls[s].units)
    /\ calls[s].units[u].pc = "net"
    /\ calls' = [calls EXCEPT ![s] = OperationThrows(@, u, error, now)]
    /\ UNCHANGED <<now, cache, store, health, started, probe, hook>>

\* the retry delay of chain u of slot s has elapsed
RetryTimer(s, u) ==
    /\ u \in 1..Len(calls[s].units)
    /\ calls[s].units[u].pc = "sleep"
    /\ now >= calls[s].units[u].wake
    /\ calls' = [calls EXCEPT ![s].units[u] = withRetryAgain(@)]
    /\ UNCHANGED <<now, cache, store, health, started, probe, hook>>

\* the awaiting function continues
Resume(s) ==
    /\ calls[s].pc = "await"
    /\ Settled(calls[s])
    /\ LET r == ResumeCall(cache, now, calls[s])
       IN  /\ cache' = r.cache
           /\ calls' = [calls EXCEPT ![s] = r.call]
    /\ UNCHANGED <<now, store, health, started, probe, hook>>

\* time passes
Tick(t) ==
    /\ t \in TimePoints
    /\ t > now
    /\ now' = t
    /\ UNCHANGED <<cache, store, calls, health, started, probe, hook>>

\* ------------------------------------------------------------------------
\* Initial states and inputs
\* ------------------------------------------------------------------------
\* a well-formed document with a native timestamp, a document whose payload
\* is not an object, and an id with no document
Store1 ==
    [i \in IdSet |->
        CASE i = <<"a">> -> Doc(TRUE, TRUE, "ts", 3, "active")
          [] i = <<"b">> -> Doc(TRUE, FALSE, "ts", 2, "active")
          [] OTHER -> NoDoc]

StoreChoices == {Store1}

\* the cache after n fetchJobsWithFilters calls with pairwise different
\* filters that match no document, all made at time 0
Prefill(n) ==
    [k \in 1..n |->
        [key |-> FilterCacheKey(Filters(TRUE, k, "archived")),
         data |-> ListData(<<>>), timestamp |-> 0]]

PrefillSizes == {0, MAX_CACHE_SIZE - 1}

RawJobIds == {Str(<<" ", "c", " ">>), JsNull}

Array(items) == [isArray |-> TRUE, items |-> items]
NotAnArray == [isArray |-> FALSE, items |-> <<>>]

JobIdLists ==
    {Array(<<Str(<<" ", "a">>), JsNull, Str(<<"c">>), Str(<<"b">>), Str(<<"a">>)>>),
     NotAnArray}

ErrorChoices == {e \in RemoteErrors : e.code \in {"unavailable", "permission-denied"}}

FilterChoices == {Filters(TRUE, 1, "active")}

\* the largest number of chunks of one batch
MaxUnits == (MaxBatch + FIRESTORE_IN_LIMIT - 1) \div FIRESTORE_IN_LIMIT

Init ==
    /\ now = 0
    /\ cache \in {Prefill(n) : n \in PrefillSizes}
    /\ store \in StoreChoices
    /\ calls = [s \in Slots |-> IdleCall]
    /\ health = getServiceHealth(<<>>, 0)
    /\ started = 0
    /\ hook = IdleHook
    /\ probe = NoProbe

Next ==
    \/ \E s \in Slots, useCache \in BOOLEAN : FetchAllJobs(s, useCache)
    \/ \E s \in Slots, jobId \in RawJobIds, useCache \in BOOLEAN :
           FetchJobById(s, jobId, useCache)
    \/ \E s \in Slots, jobIds \in JobIdLists, useCache \in BOOLEAN :
           FetchJobsByIds(s, jobIds, useCache)
    \/ \E s \in Slots, f \in FilterChoices, useCache \in BOOLEAN :
           FetchJobsWithFilters(s, f, useCache)
    \/ \E s \in Slots, jobIds \in JobIdLists : PrefetchJobs(s, jobIds)
    \/ ClearJobCache
    \/ \E s \in Slots, u \in 1..MaxUnits : RemoteSuccess(s, u)
    \/ \E s \in Slots, u \in 1..MaxUnits, error \in ErrorChoices : RemoteFailure(s, u, error)
    \/ \E s \in Slots, u \in 1..MaxUnits : RetryTimer(s, u)
    \/ \E s \in Slots : Resume(s)
    \/ \E t \in TimePoints : Tick(t)

Spec == Init /\ [][Next]_vars

\* ------------------------------------------------------------------------
\* The cache layer on its own (specification SpecCache): getFromCache,
\* saveToCache, clearJobCache and getServiceHealth applied directly.
\* probe records the last use (operation, key, value stored or returned, the
\* entry found under the key before it, the time) and, per key, the number
\* of the put that inserted the key while the Map did not hold it
\* (firstInserted) and the value and time of its last put (lastPut, live
\* until the key is evicted or the cache cleared).
\* ------------------------------------------------------------------------
SomeJob == [id |-> <<"a">>, createdAt |-> [t |-> "iso", n |-> 3],
            updatedAt |-> [t |-> "iso", n |-> 3], status |-> "active",
            fields |-> NoFields]

CacheKeyChoices ==
    {AllJobsKey, JobKey(<<"a">>), FilterCacheKey(Filters(TRUE, 1, "archived"))}

CacheDataChoices == {NullData, JobData(SomeJob)}

CacheKeyDomain == CacheKeyChoices \cup CacheKeys(Prefill(MAX_CACHE_SIZE))

NoPut == [live |-> FALSE, data |-> NullData, at |-> 0]

\* the record of a cache that holds Prefill(n)
InitProbe(n) ==
    [NoProbe EXCEPT
       !.firstInserted =
           [k \in CacheKeyDomain |->
              IF \E i \in 1..n : Prefill(n)[i].key = k
              THEN (CHOOSE i \in 1..n : Prefill(n)[i].key = k) - MAX_CACHE_SIZE - 1
              ELSE 0],
       !.lastPut =
           [k \in CacheKeyChoices |->
              IF k \in CacheKeys(Prefill(n))
              THEN [live |-> TRUE, data |-> ListData(<<>>), at |-> 0]
              ELSE NoPut]]

CachePut(key, data) ==
    /\ probe.seq < MaxCacheOps
    /\ cache' = saveToCache(cache, key, data, now)
    /\ probe' = [probe EXCEPT
         !.op = "put", !.key = key, !.data = data,
         !.before = CacheLookup(cache, key), !.at = now, !.seq = @ + 1,
         !.firstInserted = IF key \in CacheKeys(cache) THEN @
                           ELSE [@ EXCEPT ![key] = probe.seq + 1],
         !.lastPut = [k \in CacheKeyChoices |->
                        IF k = key THEN [live |-> TRUE, data |-> data, at |-> now]
                        ELSE IF Len(cache) >= MAX_CACHE_SIZE /\ k \notin CacheKeys(cache')
                             THEN NoPut
                             ELSE @[k]]]
    /\ UNCHANGED <<now, store, calls, health, started, hook>>

CacheGet(key) ==
    /\ probe.seq < MaxCacheOps
    /\ LET g == getFromCache(cache, key, now)
       IN  /\ cache' = g.cache
           /\ probe' = [probe EXCEPT
                !.op = "get", !.key = key, !.data = g.data,
                !.before = CacheLookup(cache, key), !.at = now, !.seq = @ + 1]
    /\ UNCHANGED <<now, store, calls, health, started, hook>>

CacheClear ==
    /\ probe.seq < MaxCacheOps
    /\ cache' = clearJobCache(cache)
    /\ probe' = [probe EXCEPT
         !.op = "clear", !.key = AllJobsKey, !.data = NullData,
         !.before = NoEntry, !.at = now, !.seq = @ + 1,
         !.lastPut = [k \in CacheKeyChoices |-> NoPut]]
    /\ UNCHANGED <<now, store, calls, health, started, hook>>

\* a health report that also removes the expired entries it counts
CacheHealthPruning ==
    /\ probe.seq < MaxCacheOps
    /\ health' = getServiceHealth(cache, now)
    /\ cache' = SelectSeq(cache, LAMBDA e : isCacheValid(e.timestamp, now))
    /\ probe' = [probe EXCEPT
         !.op = "health", !.key = AllJobsKey, !.data = NullData,
         !.before = NoEntry, !.at = now, !.seq = @ + 1]
    /\ UNCHANGED <<now, store, calls, started, hook>>

CacheHealth ==
    /\ probe.seq < MaxCacheOps
    /\ health' = getServiceHealth(cache, now)
    /\ probe' = [probe EXCEPT
         !.op = "health", !.key = AllJobsKey, !.data = NullData,
         !.before = NoEntry, !.at = now, !.seq = @ + 1]
    /\ UNCHANGED <<now, cache, store, calls, started, hook>>

CachePrefillSizes == {0, MAX_CACHE_SIZE - 1, MAX_CACHE_SIZE}

InitCache ==
    /\ now = 0
    /\ \E n \in CachePrefillSizes :
          /\ cache = Prefill(n)
          /\ probe = InitProbe(n)
    /\ store = Store1
    /\ calls = [s \in Slots |-> IdleCall]
    /\ health = getServiceHealth(<<>>, 0)
    /\ started = 0
    /\ hook = IdleHook

NextCache ==
    \/ \E key \in CacheKeyChoices, data \in CacheDataChoices : CachePut(key, data)
    \/ \E key \in CacheKeyChoices : CacheGet(key)
    \/ CacheClear
    \/ CacheHealth
    \/ \E t \in TimePoints : Tick(t)

SpecCache == InitCache /\ [][NextCache]_vars

\* ------------------------------------------------------------------------
\* Large batches (specification SpecBatch): fetchJobsByIds alone, called
\* with every list length up to MaxBatch
\* ------------------------------------------------------------------------
\* a list of n ids: document "a" at positions 1 and 12 (a duplicate in two
\* chunks), document "b" at position 10, ids without a document elsewhere
BatchList(n) ==
    Array([k \in 1..n |->
             IF k \in {1, 12} THEN Str(<<"a">>)
             ELSE IF k = 10 THEN Str(<<" ", "b">>)
             ELSE Str(<<"j", ToString(k)>>)])

BatchErrors == {e \in RemoteErrors : e.code = "unavailable"}

InitBatch ==
    /\ now = 0
    /\ cache = <<>>
    /\ store = Store1
    /\ calls = [s \in Slots |-> IdleCall]
    /\ health = getServiceHealth(<<>>, 0)
    /\ started = 0
    /\ hook = IdleHook
    /\ probe = NoProbe

\* list lengths around the chunk width, up to the largest batch
BatchSizes ==
    {1, FIRESTORE_IN_LIMIT, FIRESTORE_IN_LIMIT + 1, 2 * FIRESTORE_IN_LIMIT,
     2 * FIRESTORE_IN_LIMIT + 1, MaxBatch}

NextBatch ==
    \/ \E n \in BatchSizes, useCache \in BOOLEAN :
           FetchJobsByIds(1, BatchList(n), useCache)
    \/ \E u \in 1..MaxUnits : RemoteSuccess(1, u)
    \/ \E u \in 1..MaxUnits, error \in BatchErrors : RemoteFailure(1, u, error)
    \/ \E u \in 1..MaxUnits : RetryTimer(1, u)
    \/ Resume(1)
    \/ \E k \in 1..MaxDelayTicks : Tick(k * RETRY_DELAY)

SpecBatch == InitBatch /\ [][NextBatch]_vars

\* ------------------------------------------------------------------------
\* The basic service (specification SpecBasic): fetchJobById of
\* src/services/jobs/fetch.js against every failure of the store
\* ------------------------------------------------------------------------
BasicJobIds == {Str(<<"a">>), Str(<<" ", "b">>), Str(<<"c">>)}

NextBasic ==
    \/ \E s \in Slots, jobId \in BasicJobIds, useCache \in BOOLEAN :
           FetchJobByIdBasic(s, jobId, useCache)
    \/ \E s \in Slots : RemoteSuccess(s, 1)
    \/ \E s \in Slots, error \in RemoteErrors : RemoteFailure(s, 1, error)
    \/ \E s \in Slots : RetryTimer(s, 1)
    \/ \E s \in Slots : Resume(s)
    \/ \E t \in TimePoints : Tick(t)

SpecBasic == InitBatch /\ [][NextBasic]_vars

\* ------------------------------------------------------------------------
\* Argument validation (specification SpecInputs): fetchJobById and
\* fetchJobsByIds called with well-formed and ill-formed arguments, on an
\* empty cache and on a full one
\* ------------------------------------------------------------------------
InputIds ==
    {JsNull, JsNum(<<"7">>), Str(<<>>), Str(<<" ", " ">>), Str(<<" ", "a">>),
     Str(<<"c">>)}

InputLists ==
    {NotAnArray, Array(<<>>), Array(<<Str(<<>>), Str(<<" ", " ">>)>>),
     Array(<<JsNull, JsNum(<<"7">>)>>), Array(<<Str(<<" ", " ">>), Str(<<"a", " ">>)>>)}

InputPrefillSizes == {0, MAX_CACHE_SIZE}

InitInputs ==
    /\ now = 0
    /\ cache \in {Prefill(n) : n \in InputPrefillSizes}
    /\ store = Store1
    /\ calls = [s \in Slots |-> IdleCall]
    /\ health = getServiceHealth(<<>>, 0)
    /\ started = 0
    /\ hook = IdleHook
    /\ probe = NoProbe

NextInputs ==
    \/ \E jobId \in InputIds, useCache \in BOOLEAN : FetchJobById(1, jobId, useCache)
    \/ \E jobIds \in InputLists, useCache \in BOOLEAN :
           FetchJobsByIds(1, jobIds, useCache)
    \/ RemoteSuccess(1, 1)
    \/ \E error \in ErrorChoices : RemoteFailure(1, 1, error)
    \/ RetryTimer(1, 1)
    \/ Resume(1)
    \/ \E t \in TimePoints : Tick(t)

SpecInputs == InitInputs /\ [][NextInputs]_vars

\* ------------------------------------------------------------------------
\* Posting (specification SpecPost): postJob called with a valid form and
\* with forms, user ids and user names that each break one rule, against a
\* store that accepts or fails the request; the id a successful postJob
\* returns is passed to fetchJobById.  postJob runs in slot 1, the
\* fetchJobById that follows it in the other slot.
\* ------------------------------------------------------------------------
GoodForm ==
    [date |-> Str(<<"2", "0", "2", "5", "-", "0", "1", "-", "1", "5">>),
     hospital |-> Str(<<" ", "Mercy", " ">>),
     location |-> Str(<<"Leeds">>),
     position |-> Str(<<"Nurse", " ">>),
     salary |-> Str(<<"5", "0">>),
     schedule |-> Str(<<" ", "nights">>),
     type |-> Str(<<"permanent">>)]

GoodUserId == Str(<<" ", "u1">>)
GoodUserName == Str(<<"Ann", " ">>)

\* the values tried for a form field in place of the good one
FieldValues(field) ==
    {Undefined, JsNull, Str(<<>>), Str(<<" ", " ">>)}
    \cup (IF field = "date" THEN {Str(<<"s", "o", "o", "n">>)}
          ELSE {JsNum(<<"7">>), JsNum(<<"0">>)})
    \cup (IF field = "salary"
          THEN {Str(<<"-", "5">>), Str(<<"0">>), Str(<<"5", "x">>), Str(<<"x">>),
                Str(<<" ", "7", " ">>), JsNum(<<"-", "5">>)}
          ELSE {})
    \cup (IF field = "type"
          THEN {Str(<<"relieving">>), Str(<<"temp">>), Str(<<" ", "permanent">>)}
          ELSE {})

Forms ==
    {Object(GoodForm), NoObject}
    \cup UNION {{Object([GoodForm EXCEPT ![FormFields[i]] = v]) :
                    v \in FieldValues(FormFields[i])} : i \in 1..Len(FormFields)}

UserValues == {JsNull, Str(<<>>), Str(<<" ", " ">>), JsNum(<<"7">>)}

PostInputs ==
    {<<form, GoodUserId, GoodUserName>> : form \in Forms}
    \cup {<<Object(GoodForm), v, GoodUserName>> : v \in UserValues}
    \cup {<<Object(GoodForm), GoodUserId, v>> : v \in UserValues}

\* one job posted earlier, two ids without a document
StorePost ==
    [i \in IdSet |-> IF i = <<"a">> THEN Doc(TRUE, TRUE, "ts", 3, "active") ELSE NoDoc]

InitPost ==
    /\ now = 0
    /\ cache = <<>>
    /\ store = StorePost
    /\ calls = [s \in Slots |-> IdleCall]
    /\ health = getServiceHealth(<<>>, 0)
    /\ started = 0
    /\ hook = IdleHook
    /\ probe = NoProbe

NextPost ==
    \/ \E in \in PostInputs : PostJob(1, in[1], in[2], in[3])
    \/ AddDocSuccess(1)
    \/ \E s \in Slots, useCache \in BOOLEAN : FetchPosted(1, s, useCache)
    \/ \E s \in Slots : RemoteSuccess(s, 1)
    \/ \E s \in Slots, error \in ErrorChoices : RemoteFailure(s, 1, error)
    \/ \E s \in Slots : RetryTimer(s, 1)
    \/ \E s \in Slots : Resume(s)
    \/ \E t \in TimePoints : Tick(t)

SpecPost == InitPost /\ [][NextPost]_vars

\* ------------------------------------------------------------------------
\* Write-through (specification SpecThrough): fetchAllJobs against a store
\* of two well-formed jobs, on an empty cache and on a full cache in which
\* the entry job_a is the second oldest (as after one filtered read,
\* fetchJobById("a") and 48 more filtered reads, all at time 0)
\* ------------------------------------------------------------------------
StoreTwo ==
    [i \in IdSet |->
        CASE i = <<"a">> -> Doc(TRUE, TRUE, "ts", 3, "active")
          [] i = <<"b">> -> Doc(TRUE, FALSE, "ts", 2, "active")
          [] OTHER -> Doc(TRUE, TRUE, "ts", 1, "active")]

AgedCache ==
    LET filtered == Prefill(MAX_CACHE_SIZE - 1)
    IN  <<filtered[1],
          [key |-> JobKey(<<"a">>),
           data |-> processJobData(<<"a">>, StoreTwo[<<"a">>]),
           timestamp |-> 0]>>
        \o Tail(filtered)

InitThrough ==
    /\ now = 0
    /\ cache \in {<<>>, AgedCache}
    /\ store = StoreTwo
    /\ calls = [s \in Slots |-> IdleCall]
    /\ health = getServiceHealth(<<>>, 0)
    /\ started = 0
    /\ hook = IdleHook
    /\ probe = NoProbe

NextThrough ==
    \/ \E s \in Slots, useCache \in BOOLEAN : FetchAllJobs(s, useCache)
    \/ \E s \in Slots, id \in IdSet : FetchJobById(s, Str(id), TRUE)
    \/ \E s \in Slots : RemoteSuccess(s, 1)
    \/ \E s \in Slots, error \in ErrorChoices : RemoteFailure(s, 1, error)
    \/ \E s \in Slots : RetryTimer(s, 1)
    \/ \E s \in Slots : Resume(s)
    \/ \E t \in TimePoints : Tick(t)

SpecThrough == InitThrough /\ [][NextThrough]_vars

\* ------------------------------------------------------------------------
\* Overlapping fetchAllJobs calls over a store that other clients write to.
\* The store evaluates a query at one moment and its answer arrives at a
\* later one; the answers of two queries may arrive in either order.  The
\* continuations of an answer (the rest of the wrapped operation, withRetry
\* and the awaiting function) run back to back, before any other answer
\* is delivered.
\* ------------------------------------------------------------------------
\* the store evaluates the outstanding query of slot s
ServerRead(s) ==
    /\ calls[s].op = "fetchAllJobs"
    /\ Len(calls[s].units) = 1
    /\ calls[s].units[1].pc = "net"
    /\ calls[s].read.attempt # calls[s].units[1].attempts
    /\ calls' = [calls EXCEPT ![s].read =
                   [attempt |-> calls[s].units[1].attempts, store |-> store]]
    /\ UNCHANGED <<now, cache, store, health, started, probe, hook>>

\* the answer to the evaluated query of slot s arrives
Reply(s) ==
    /\ calls[s].op = "fetchAllJobs"
    /\ Len(calls[s].units) = 1
    /\ calls[s].units[1].pc = "net"
    /\ calls[s].read.attempt = calls[s].units[1].attempts
    /\ LET answered == Operation(cache, now, calls[s].read.store, calls[s], 1)
           r == ResumeCall(answered.cache, now, answered.call)
       IN  /\ cache' = r.cache
           /\ calls' = [calls EXCEPT ![s] = r.call]
    /\ UNCHANGED <<now, store, health, started, probe, hook>>

\* the number of jobs other clients add
MaxAdded == 2

\* another client adds a job, newer than the jobs there are
StoreAdd ==
    /\ \E k \in 1..MaxAdded :
          /\ ~store[DocIds[k]].exists
          /\ \A j \in 1..(k - 1) : store[DocIds[j]].exists
          /\ store' = [store EXCEPT ![DocIds[k]] = Doc(TRUE, TRUE, "ts", k, "active")]
    /\ UNCHANGED <<now, cache, calls, health, started, probe, hook>>

InitOverlap ==
    /\ now = 0
    /\ cache = <<>>
    /\ store = EmptyStore
    /\ calls = [s \in Slots |-> IdleCall]
    /\ health = getServiceHealth(<<>>, 0)
    /\ started = 0
    /\ hook = IdleHook
    /\ probe = NoProbe

NextOverlap ==
    \/ \E s \in Slots, useCache \in BOOLEAN : FetchAllJobs(s, useCache)
    \/ \E s \in Slots : ServerRead(s)
    \/ \E s \in Slots : Reply(s)
    \/ \E s \in Slots, error \in ErrorChoices : RemoteFailure(s, 1, error)
    \/ \E s \in Slots : RetryTimer(s, 1)
    \/ \E s \in Slots : Resume(s)
    \/ StoreAdd
    \/ \E t \in TimePoints : Tick(t)

SpecOverlap == InitOverlap /\ [][NextOverlap]_vars

\* ------------------------------------------------------------------------
\* fetchJobsByIds of the service whose fetchAllJobs is sorted and whose batch
\* fetch is one fetchJobById per id (src/unnamed/part_001).  A call keeps one
\* withRetry chain per valid id, and in fetchedJobs the value each
\* fetchJobById promise settled with, keyed by the position of its id.
\* ------------------------------------------------------------------------
\* validJobIds.map(fetchJobById): the synchronous part of each fetchJobById,
\* in list order; the loop state l is [rest, k, cache, units, results]
RECURSIVE fetchJobByIdPerIdBegin(_, _, _)
fetchJobByIdPerIdBegin(t, useCache, l) ==
    IF l.rest = <<>> THEN l
    ELSE LET cleanJobId == Head(l.rest)
             g == IF useCache THEN getFromCache(l.cache, JobKey(cleanJobId), t)
                  ELSE [data |-> NullData, cache |-> l.cache]
             hit == useCache /\ g.data # NullData
         IN  fetchJobByIdPerIdBegin(t, useCache,
               [l EXCEPT !.rest = Tail(@), !.k = @ + 1, !.cache = g.cache,
                         !.units = Append(@,
                             IF hit
                             THEN [NewUnit(<<cleanJobId>>) EXCEPT
                                     !.pc = "resolved", !.attempts = 0]
                             ELSE NewUnit(<<cleanJobId>>)),
                         !.results = IF hit THEN MapSet(@, l.k, g.data) ELSE @])

fetchJobsByIdsPerIdBegin(c, t, jobIds, useCache) ==
    LET call0 == [IdleCall EXCEPT !.op = "fetchJobsByIdsPerId",
                                  !.useCache = useCache, !.input = jobIds.items]
        validJobIds == ValidJobIds(jobIds.items)
    IN  IF ~jobIds.isArray \/ Len(jobIds.items) = 0 \/ Len(validJobIds) = 0
        THEN [cache |-> c, call |-> Returned(call0, <<>>)]
        ELSE LET l == fetchJobByIdPerIdBegin(t, useCache,
                          [rest |-> validJobIds, k |-> 1, cache |-> c,
                           units |-> <<>>, results |-> {}])
             IN  [cache |-> l.cache,
                  call |-> [call0 EXCEPT !.pc = "await", !.ids = validJobIds,
                                         !.units = l.units,
                                         !.fetchedJobs = l.results]]

\* the catch block of the fetchJobById of position u, and the .catch of
\* fetchJobsByIds that turns its error into null
fetchJobByIdPerIdCatch(c, call, u, error) ==
    LET staleCache == CacheLookup(c, JobKey(call.units[u].ids[1]))
        logged == logError(call, "fetchJobById", error)
    IN  [logged EXCEPT
           !.fetchedJobs = MapSet(@, u,
                                  IF call.useCache /\ staleCache.present
                                  THEN staleCache.data
                                  ELSE NullData)]

\* the wrapped operation of position u throws: withRetry's catch block
fetchJobByIdPerIdThrows(c, t, call, u, error) ==
    LET unit == [withRetryCatch(call.units[u], error, t) EXCEPT
                   !.failures = @ + 1, !.thrown = error]
        sofar == [call EXCEPT !.units[u] = unit]
    IN  IF unit.pc = "rejected"
        THEN fetchJobByIdPerIdCatch(c, sofar, u, error)
        ELSE sofar

\* getDoc of position u has answered: the rest of its fetchJobById
fetchJobByIdPerIdOperation(c, t, st, call, u) ==
    LET cleanJobId == call.units[u].ids[1]
        docSnap == IF cleanJobId \in DOMAIN st THEN st[cleanJobId] ELSE NoDoc
        job == IF docSnap.exists THEN processJobData(cleanJobId, docSnap)
               ELSE NullData
    IN  IF docSnap.exists /\ ~docSnap.wellFormed
        THEN [cache |-> c,
              call |-> fetchJobByIdPerIdThrows(c, t, call, u, InvalidDataError)]
        ELSE [cache |-> saveToCache(c, JobKey(cleanJobId), job, t),
              call |-> [call EXCEPT !.units[u].pc = "resolved",
                                    !.order = Append(@, u),
                                    !.fetchedJobs = MapSet(@, u, job)]]

\* new Date(x.createdAt || 0) of a result
CreatedAtDate(d) == IF Truthy(d) THEN d.v[1].createdAt.n ELSE 0

\* results.sort(...) with a comparator that is consistent: the stable sort,
\* latest first
RECURSIVE SortLatestFirst(_)
SortLatestFirst(results) ==
    IF results = <<>> THEN <<>>
    ELSE LET top == CHOOSE i \in 1..Len(results) :
                      /\ \A j \in 1..Len(results) :
                            CreatedAtDate(results[j]) <= CreatedAtDate(results[i])
                      /\ \A j \in 1..(i - 1) :
                            CreatedAtDate(results[j]) < CreatedAtDate(results[i])
         IN  <<results[top]>>
             \o SortLatestFirst([j \in 1..(Len(results) - 1) |->
                                    IF j < top THEN results[j] ELSE results[j + 1]])

\* the comparator answers 0 whenever one side is null: it orders nothing
\* when every pair answers 0, it is a consistent comparator when no result
\* is null, and otherwise the order the sort leaves is up to the engine
SortOutcomes(results) ==
    LET n == Len(results)
        found == {i \in 1..n : Truthy(results[i])}
    IN  IF \A i, j \in found : CreatedAtDate(results[i]) = CreatedAtDate(results[j])
        THEN {results}
        ELSE IF found = 1..n
        THEN {SortLatestFirst(results)}
        ELSE {[i \in 1..n |-> results[p[i]]] :
                p \in {q \in [1..n -> 1..n] : \A i, j \in 1..n : q[i] = q[j] => i = j}}

FetchJobsByIdsPerId(s, jobIds, useCache) ==
    /\ Free(s)
    /\ LET r == fetchJobsByIdsPerIdBegin(cache, now, jobIds, useCache)
       IN  /\ cache' = r.cache
           /\ calls' = [calls EXCEPT ![s] = r.call]
    /\ started' = started + 1
    /\ UNCHANGED <<now, store, health, probe, hook>>

\* the store answers the getDoc of position u
PerIdSuccess(s, u) ==
    /\ calls[s].op = "fetchJobsByIdsPerId"
    /\ u \in 1..Len(calls[s].units)
    /\ calls[s].units[u].pc = "net"
    /\ LET r == fetchJobByIdPerIdOperation(cache, now, store, calls[s], u)
       IN  /\ cache' = r.cache
           /\ calls' = [calls EXCEPT ![s] = r.call]
    /\ UNCHANGED <<now, store, health, started, probe, hook>>

\* the getDoc of position u fails
PerIdFailure(s, u, error) ==
    /\ calls[s].op = "fetchJobsByIdsPerId"
    /\ u \in 1..Len(calls[s].units)
    /\ calls[s].units[u].pc = "net"
    /\ calls' = [calls EXCEPT
                   ![s] = fetchJobByIdPerIdThrows(cache, now, calls[s], u, error)]
    /\ UNCHANGED <<now, cache, store, health, started, probe, hook>>

\* after `await Promise.all(promises)`: every promise has settled with a
\* value
PerIdResume(s) ==
    /\ calls[s].op = "fetchJobsByIdsPerId"
    /\ calls[s].pc = "await"
    /\ \A u \in 1..Len(calls[s].units) :
          calls[s].units[u].pc \in {"resolved", "rejected"}
    /\ \E sortedResults \in SortOutcomes(MapOver([u \in 1..Len(calls[s].units) |-> u],
                                                 calls[s].fetchedJobs)) :
          calls' = [calls EXCEPT ![s] = Returned(@, sortedResults)]
    /\ UNCHANGED <<now, cache, store, health, started, probe, hook>>

\* lists of ids in an order other than latest first: with an id that is not
\* valid, an id whose document is ill-formed, and an id without a document
PerIdLists ==
    {Array(<<JsNull>>),
     Array(<<Str(<<"c">>), JsNull, Str(<<"a">>)>>),
     Array(<<Str(<<" ", "b">>), Str(<<"a">>)>>),
     Array(<<Str(<<"x">>), Str(<<"a">>)>>)}

\* positions of the longest list
MaxPerId == 2

InitPerId ==
    /\ now = 0
    /\ cache = <<>>
    /\ store = StoreTwo
    /\ calls = [s \in Slots |-> IdleCall]
    /\ health = getServiceHealth(<<>>, 0)
    /\ started = 0
    /\ hook = IdleHook
    /\ probe = NoProbe

NextPerId ==
    \/ \E jobIds \in PerIdLists, useCache \in BOOLEAN :
           FetchJobsByIdsPerId(1, jobIds, useCache)
    \/ \E u \in 1..MaxPerId : PerIdSuccess(1, u)
    \/ \E u \in 1..MaxPerId, error \in ErrorChoices : PerIdFailure(1, u, error)
    \/ \E u \in 1..MaxPerId : RetryTimer(1, u)
    \/ PerIdResume(1)
    \/ \E t \in TimePoints : Tick(t)

SpecPerId == InitPerId /\ [][NextPerId]_vars

\* ------------------------------------------------------------------------
\* Every operation under a store that answers each request, with success or
\* with an error, and a clock that reaches the end of each retry delay.
\* ------------------------------------------------------------------------
\* the chunks of the longest list
MaxLiveUnits == 2

\* the clock reaches the end of the earliest pending retry delay
TimerTick ==
    /\ \E s \in Slots, u \in 1..MaxLiveUnits :
          /\ u \in 1..Len(calls[s].units)
          /\ calls[s].units[u].pc = "sleep"
          /\ now < calls[s].units[u].wake
          /\ \A r \in Slots : \A v \in 1..Len(calls[r].units) :
                calls[r].units[v].pc = "sleep"
                  => calls[s].units[u].wake <= calls[r].units[v].wake
          /\ now' = calls[s].units[u].wake
    /\ UNCHANGED <<cache, store, calls, health, started, probe, hook>>

\* the store answers the outstanding request of chain u of slot s, one way
\* or the other
Answer(s, u) ==
    \/ RemoteSuccess(s, u)
    \/ u = 1 /\ AddDocSuccess(s)
    \/ \E error \in ErrorChoices : RemoteFailure(s, u, error)

\* one call of any of the operations
Invoke ==
    \/ \E useCache \in BOOLEAN : FetchAllJobs(1, useCache)
    \/ \E useCache \in BOOLEAN : FetchJobById(1, Str(<<"a">>), useCache)
    \/ \E useCache \in BOOLEAN :
           FetchJobsByIds(1, BatchList(FIRESTORE_IN_LIMIT + 1), useCache)
    \/ \E f \in FilterChoices, useCache \in BOOLEAN :
           FetchJobsWithFilters(1, f, useCache)
    \/ PostJob(1, Object(GoodForm), GoodUserId, GoodUserName)

NextLive ==
    \/ started = 0 /\ Invoke
    \/ \E u \in 1..MaxLiveUnits : Answer(1, u)
    \/ \E u \in 1..MaxLiveUnits : RetryTimer(1, u)
    \/ Resume(1)
    \/ TimerTick

\* each request is answered, each elapsed delay is followed by the next
\* attempt, each settled await is resumed, and time passes
Fairness ==
    /\ \A u \in 1..MaxLiveUnits : WF_vars(Answer(1, u))
    /\ \A u \in 1..MaxLiveUnits : WF_vars(RetryTimer(1, u))
    /\ WF_vars(Resume(1))
    /\ WF_vars(TimerTick)

SpecLive == InitPost /\ [][NextLive]_vars /\ Fairness

\* ------------------------------------------------------------------------
\* postJob over a store whose acknowledgement of an applied add can be lost
\* ------------------------------------------------------------------------
DeadlineExceeded == [code |-> "deadline-exceeded", message |-> <<"deadline", "exceeded">>]

\* the store applies the addDoc request of slot s, and the request ends with
\* "deadline-exceeded" at the client
AddDocLostAck(s) ==
    /\ calls[s].op = "postJob"
    /\ Len(calls[s].units) = 1
    /\ calls[s].units[1].pc = "net"
    /\ \E id \in IdSet :
          /\ ~store[id].exists
          /\ store' = [store EXCEPT ![id] = PostedDoc(calls[s].value.v[1], now)]
    /\ calls' = [calls EXCEPT ![s] = OperationThrows(@, 1, DeadlineExceeded, now)]
    /\ UNCHANGED <<now, cache, health, started, probe, hook>>

InitLostAck ==
    /\ now = 0
    /\ cache = <<>>
    /\ store = EmptyStore
    /\ calls = [s \in Slots |-> IdleCall]
    /\ health = getServiceHealth(<<>>, 0)
    /\ started = 0
    /\ hook = IdleHook
    /\ probe = NoProbe

NextLostAck ==
    \/ \E in \in PostInputs : PostJob(1, in[1], in[2], in[3])
    \/ AddDocSuccess(1)
    \/ AddDocLostAck(1)
    \/ \E error \in ErrorChoices : RemoteFailure(1, 1, error)
    \/ RetryTimer(1, 1)
    \/ Resume(1)
    \/ \E t \in TimePoints : Tick(t)

SpecLostAck == InitLostAck /\ [][NextLostAck]_vars

\* ------------------------------------------------------------------------
\* The useJobs hook (hooks/useJobs.js, specification SpecHook): loadJobs,
\* onRefresh and clearCache over the module-level jobsCache, and the
\* continuations the hook attaches to its fetchAllJobs calls.  A
\* continuation of a settled call runs before anything else does.
\* ------------------------------------------------------------------------
HOOK_CACHE_TIME == 3 * 60 * 1000
STALE_TIME == 1 * 60 * 1000

\* jobsCache.set
jobsCacheSet(h, data, t) == [h EXCEPT !.data = data, !.timestamp = t]

\* jobsCache.clear
jobsCacheClear(h) == [h EXCEPT !.data = NullData, !.timestamp = 0]

\* jobsCache.get: [data, hook] - the value returned and the hook afterwards
jobsCacheGet(h, t) ==
    IF ~Truthy(h.data) \/ h.timestamp = 0
    THEN [data |-> NullData, hook |-> h]
    ELSE IF t - h.timestamp > HOOK_CACHE_TIME
    THEN [data |-> NullData, hook |-> jobsCacheClear(h)]
    ELSE [data |-> h.data, hook |-> h]

\* jobsCache.isStale
jobsCacheIsStale(h, t) == h.timestamp = 0 \/ t - h.timestamp > STALE_TIME

\* loadJobs up to its fetchAllJobs call: the hook afterwards and the call it
\* makes ("none", a "background" refresh, or the awaited "load")
loadJobsBegin(h, t, useCache) ==
    LET g == IF useCache THEN jobsCacheGet(h, t)
             ELSE [data |-> NullData, hook |-> h]
    IN  IF useCache /\ Truthy(g.data)
        THEN [hook |-> [g.hook EXCEPT !.jobs = g.data, !.error = "",
                                      !.loading = FALSE],
              fetch |-> IF jobsCacheIsStale(g.hook, t) THEN "background"
                        ELSE "none"]
        ELSE [hook |-> [g.hook EXCEPT !.loading = TRUE, !.error = ""],
              fetch |-> "load"]

\* the continuation of the fetchAllJobs call: .then / .catch of the
\* background refresh, the rest of loadJobs, or the rest of onRefresh
hookContinue(h, t, call, kind) ==
    LET fresh == call.result[1]
        stored == [jobsCacheSet(h, fresh, t) EXCEPT !.jobs = fresh]
    IN  CASE kind = "background" ->
               IF call.outcome = "return" THEN stored ELSE h
          [] kind = "load" ->
               IF call.outcome = "return"
               THEN [stored EXCEPT !.loading = FALSE]
               ELSE [h EXCEPT !.error = call.message, !.loading = FALSE]
          [] kind = "refresh" ->
               IF call.outcome = "return"
               THEN [stored EXCEPT !.refreshing = FALSE]
               ELSE [h EXCEPT !.error = call.message, !.refreshing = FALSE]

\* fetchAllJobs calls the hook makes in one behaviour
MaxHookCalls == 3
\* minutes the clock advances in one behaviour
MaxMinutes == 6

MINUTE == 60 * 1000

\* no continuation of a settled call is waiting to run
NoMicrotask ==
    \A s \in Slots : hook.waiting[s] = "none" \/ calls[s].pc # "done"

FreeHookSlot(s) ==
    /\ started < MaxHookCalls
    /\ Available(s)
    /\ \A r \in 1..(s - 1) : ~Available(r)

LoadJobs(s, useCache) ==
    /\ NoMicrotask
    /\ LET l == loadJobsBegin(hook, now, useCache)
       IN  IF l.fetch = "none"
           THEN /\ s = 1
                /\ hook' = l.hook
                /\ UNCHANGED <<cache, calls, started>>
           ELSE /\ FreeHookSlot(s)
                /\ LET r == fetchAllJobsBasicBegin(cache, now, TRUE)
                   IN  /\ cache' = r.cache
                       /\ calls' = [calls EXCEPT ![s] = r.call]
                /\ hook' = [l.hook EXCEPT !.waiting[s] = l.fetch]
                /\ started' = started + 1
    /\ UNCHANGED <<now, store, health, probe>>

OnRefresh(s) ==
    /\ NoMicrotask
    /\ FreeHookSlot(s)
    /\ LET r == fetchAllJobsBasicBegin(cache, now, FALSE)
       IN  /\ cache' = r.cache
           /\ calls' = [calls EXCEPT ![s] = r.call]
    /\ hook' = [hook EXCEPT !.refreshing = TRUE, !.error = "",
                            !.waiting[s] = "refresh"]
    /\ started' = started + 1
    /\ UNCHANGED <<now, store, health, probe>>

ClearCache ==
    /\ NoMicrotask
    /\ Truthy(hook.data)
    /\ hook' = jobsCacheClear(hook)
    /\ UNCHANGED <<now, cache, store, calls, health, started, probe>>

HookContinue(s) ==
    /\ hook.waiting[s] # "none"
    /\ calls[s].pc = "done"
    /\ hook' = [hookContinue(hook, now, calls[s], hook.waiting[s])
                  EXCEPT !.waiting[s] = "none"]
    /\ UNCHANGED <<now, cache, store, calls, health, started, probe>>

HookTick ==
    /\ NoMicrotask
    /\ now < (1 + MaxMinutes) * MINUTE
    /\ now' = now + MINUTE
    /\ UNCHANGED <<cache, store, calls, health, started, probe, hook>>

InitHook ==
    /\ now = MINUTE
    /\ cache = <<>>
    /\ store = EmptyStore
    /\ calls = [s \in Slots |-> IdleCall]
    /\ health = getServiceHealth(<<>>, 0)
    /\ started = 0
    /\ probe = NoProbe
    /\ hook = IdleHook

\* the hook of one component, one fetchAllJobs call at a time
NextHook ==
    \/ \E useCache \in BOOLEAN : LoadJobs(1, useCache)
    \/ OnRefresh(1)
    \/ ClearCache
    \/ HookContinue(1)
    \/ NoMicrotask /\ RemoteSuccess(1, 1)
    \/ \E error \in ErrorChoices : NoMicrotask /\ RemoteFailure(1, 1, error)
    \/ NoMicrotask /\ RetryTimer(1, 1)
    \/ NoMicrotask /\ Resume(1)
    \/ NoMicrotask /\ StoreAdd
    \/ HookTick

SpecHook == InitHook /\ [][NextHook]_vars

\* ------------------------------------------------------------------------
\* Properties of the read service (specification Spec)
\* ------------------------------------------------------------------------
\* the ids of an argument list that are non-blank strings, stripped of the
\* blanks around them
NonBlank(x) == x.t = "str" /\ \E i \in 1..Len(x.s) : x.s[i] # " "

Stripped(chars) ==
    LET solid == {i \in 1..Len(chars) : chars[i] # " "}
        first == CHOOSE i \in solid : \A j \in solid : i <= j
        last == CHOOSE i \in solid : \A j \in solid : j <= i
    IN  SubSeq(chars, first, last)

ExpectedIds(items) ==
    LET kept == SelectSeq(items, NonBlank)
    IN  [i \in 1..Len(kept) |-> Stripped(kept[i].s)]

HasGoodDocument(id) == id \in DOMAIN store /\ store[id].exists /\ store[id].wellFormed

\* C1: a fetchAllJobs(true) call that found the aggregate entry present but
\* expired and whose remote attempts all failed returns that entry's data
\* instead of throwing.
C1_StaleFallbackAllJobs ==
    \A s \in Slots :
        LET call == calls[s]
        IN  (/\ call.op = "fetchAllJobs"
             /\ call.pc = "done"
             /\ call.useCache
             /\ call.startEntry.present
             /\ ~call.startEntry.young
             /\ call.caught # NoError)
            => (/\ call.outcome = "return"
                /\ call.result = <<call.startEntry.data>>)

\* C2: a fetchJobById(id, true) call that found a fresh job_<id> entry holding
\* null returns null and issues no remote lookup.
C2_NegativeCacheHit ==
    \A s \in Slots :
        LET call == calls[s]
        IN  (/\ call.op = "fetchJobById"
             /\ call.useCache
             /\ call.startEntry.present
             /\ call.startEntry.young
             /\ call.startEntry.data = NullData)
            => (/\ call.units = <<>>
                /\ call.outcome = "return"
                /\ call.result = <<NullData>>)

\* C3: the cache never holds more than MAX_CACHE_SIZE entries, whatever the
\* operations called and however their continuations interleave.
C3_CacheSizeBound == Len(cache) <= MAX_CACHE_SIZE

\* the cache is full, entries have been evicted, and a call is in flight
C3_Witness ==
    /\ Len(cache) = MAX_CACHE_SIZE
    /\ Len(Prefill(1)) = 1
    /\ Prefill(1)[1].key \notin CacheKeys(cache)
    /\ \E s \in Slots : InFlight(calls[s])

\* C8: a fetchJobsByIds call that returns normally returns one element per
\* valid id of its argument, in the caller's order: element i is null or a
\* job whose id is the i-th valid trimmed id; it is null for an id with no
\* document, and a fresh (non-fallback) result is non-null exactly for the
\* ids that have a well-formed document.
C8_BatchResultShape ==
    \A s \in Slots :
        LET call == calls[s]
            expected == ExpectedIds(call.input)
        IN  (call.op = "fetchJobsByIds" /\ call.pc = "done" /\ call.outcome = "return")
            => /\ Len(call.result) = Len(expected)
               /\ \A i \in 1..Len(expected) :
                    /\ \/ call.result[i] = NullData
                       \/ /\ call.result[i].t = "job"
                          /\ call.result[i].v[1].id = expected[i]
                    /\ ~HasGoodDocument(expected[i]) => call.result[i] = NullData
                    /\ (~call.stale /\ HasGoodDocument(expected[i]))
                           => call.result[i] # NullData

\* a batch with a duplicate id, an invalid id, a cache hit and a miss has
\* returned after a remote pass
C8_Witness ==
    \E s \in Slots :
        LET call == calls[s]
        IN  /\ call.op = "fetchJobsByIds" /\ call.pc = "done"
            /\ call.outcome = "return" /\ ~call.stale
            /\ Len(call.result) = 4 /\ Len(call.input) = 5
            /\ call.cachedResults # {}
            /\ call.uncachedIds # <<>>
            /\ call.result[1] = call.result[4]
            /\ call.result[1] # NullData
            /\ call.result[2] = NullData

\* C9: a fetchAllJobs call whose remote request fails k times (k <= 2) with a
\* retryable error and then succeeds returns the fetched list after exactly
\* k + 1 attempts and exactly k delays (no delay when k = 0).
C9_RetrySuccessPath ==
    \A s \in Slots :
        LET call == calls[s]
        IN  (/\ call.op = "fetchAllJobs"
             /\ call.pc = "done"
             /\ Len(call.units) = 1
             /\ call.units[1].pc = "resolved")
            => (/\ call.units[1].failures <= 2
                /\ call.units[1].attempts = call.units[1].failures + 1
                /\ call.units[1].delays = call.units[1].failures
                /\ call.outcome = "return"
                /\ call.result = <<ListData(ProcessedJobs(store, SnapshotAll(store)))>>)

\* fetchAllJobs has returned the list on its third attempt
C9_Witness ==
    \E s \in Slots :
        /\ calls[s].op = "fetchAllJobs" /\ calls[s].pc = "done"
        /\ calls[s].outcome = "return"
        /\ Len(calls[s].units) = 1
        /\ calls[s].units[1].pc = "resolved"
        /\ calls[s].units[1].failures = 2
        /\ calls[s].units[1].delays = 2
        /\ calls[s].result[1].v # <<>>

RetryableByCode(error) ==
    error.code \in {"unavailable", "deadline-exceeded"}

\* C10: one withRetry chain runs its operation at most 3 times; a chain that
\* ends with a retryable error has made exactly 3 attempts and 2 delays, and
\* the error it propagates is the one of its last attempt.
C10_RetryBound ==
    \A s \in Slots :
        \A u \in 1..Len(calls[s].units) :
            LET unit == calls[s].units[u]
            IN  /\ unit.attempts <= 3
                /\ (unit.pc = "rejected" /\ RetryableByCode(unit.error))
                       => (unit.attempts = 3 /\ unit.delays = 2 /\ unit.failures = 3)
                /\ unit.pc = "rejected" => unit.error \in RemoteErrors

\* a chain has given up after three failed attempts
C10_Witness ==
    \E s \in Slots :
        \E u \in 1..Len(calls[s].units) :
            /\ calls[s].units[u].pc = "rejected"
            /\ calls[s].units[u].error.code = "unavailable"
            /\ calls[s].units[u].attempts = 3
            /\ calls[s].units[u].delays = 2

\* ------------------------------------------------------------------------
\* Properties of the cache layer (specification SpecCache)
\* ------------------------------------------------------------------------
\* C4: storing a key the cache does not hold while it holds exactly 50
\* entries removes exactly one entry, the one whose key was inserted
\* earliest, and leaves 50 entries; overwrites and reads in between do not
\* change which entry that is.
C4_EvictionChoice ==
    [][(/\ probe'.seq = probe.seq + 1
        /\ probe'.op = "put"
        /\ Len(cache) = 50
        /\ probe'.key \notin CacheKeys(cache))
       => LET held == CacheKeys(cache)
              oldest == CHOOSE k \in held :
                          \A j \in held : probe.firstInserted[k] <= probe.firstInserted[j]
          IN  /\ CacheKeys(cache') = (held \ {oldest}) \cup {probe'.key}
              /\ Len(cache') = 50]_vars

\* C5: reading a key whose last put is still live (not evicted, not cleared)
\* and younger than CACHE_TIME returns the value that was put.
C5_PutGetRoundTrip ==
    (/\ probe.op = "get"
     /\ probe.lastPut[probe.key].live
     /\ probe.at - probe.lastPut[probe.key].at < 5 * 60 * 1000)
    => probe.data = probe.lastPut[probe.key].data

\* a value stored into a full cache is read back later, before its TTL
C5_Witness ==
    /\ probe.op = "get"
    /\ probe.lastPut[probe.key].live
    /\ probe.data = JobData(SomeJob)
    /\ probe.at > probe.lastPut[probe.key].at
    /\ probe.at - probe.lastPut[probe.key].at < 5 * 60 * 1000
    /\ Len(cache) = MAX_CACHE_SIZE

\* C6: a read of a key whose entry is younger than CACHE_TIME returns its
\* data and changes nothing; a read of a key whose entry is aged CACHE_TIME
\* or more returns absent and removes that entry and no other, so that the
\* total reported by getServiceHealth drops by one.
C6_LazyExpiry ==
    [][(probe'.seq = probe.seq + 1 /\ probe'.op = "get")
       => LET key == probe'.key
              e == CacheLookup(cache, key)
          IN  e.present =>
                IF now - e.timestamp < 5 * 60 * 1000
                THEN probe'.data = e.data /\ cache' = cache
                ELSE /\ probe'.data = NullData
                     /\ cache' = SelectSeq(cache, LAMBDA x : x.key # key)
                     /\ getServiceHealth(cache', now).total
                            = getServiceHealth(cache, now).total - 1]_vars

\* an entry aged exactly CACHE_TIME has been read and is gone
C6_Witness ==
    /\ probe.op = "get"
    /\ probe.before.present
    /\ probe.at - probe.before.timestamp = 5 * 60 * 1000
    /\ probe.data = NullData
    /\ probe.key \notin CacheKeys(cache)
    /\ Len(cache) = MAX_CACHE_SIZE - 1

\* ------------------------------------------------------------------------
\* Properties of large batches (specification SpecBatch)
\* ------------------------------------------------------------------------
RECURSIVE SumAttempts(_)
SumAttempts(units) ==
    IF units = <<>> THEN 0 ELSE Head(units).attempts + SumAttempts(Tail(units))

RECURSIVE ConcatIds(_)
ConcatIds(units) ==
    IF units = <<>> THEN <<>> ELSE Head(units).ids \o ConcatIds(Tail(units))

\* C7: while no request of a fetchJobsByIds call has failed, the call has
\* issued exactly ceil(n / 10) membership queries for its n missed ids, each
\* with 1 to 10 ids, and the queries' id lists in chunk order concatenate to
\* the list of missed ids, which are the valid ids not served from the cache
\* (all of them when the cache is bypassed).
C7_BatchChunking ==
    \A s \in Slots :
        LET call == calls[s]
            n == Len(call.uncachedIds)
        IN  (/\ call.op = "fetchJobsByIds"
             /\ call.units # <<>>
             /\ \A u \in 1..Len(call.units) : call.units[u].failures = 0)
            => /\ Len(call.units) = (n + 9) \div 10
               /\ SumAttempts(call.units) = (n + 9) \div 10
               /\ \A u \in 1..Len(call.units) :
                      Len(call.units[u].ids) \in 1..10
               /\ ConcatIds(call.units) = call.uncachedIds
               /\ call.uncachedIds =
                      SelectSeq(ExpectedIds(call.input),
                                LAMBDA id : ~MapHas(call.cachedResults, id))
               /\ ~call.useCache => call.cachedResults = {}

\* 25 uncached ids have been fetched with three queries of 10, 10 and 5
C7_Witness ==
    \E s \in Slots :
        /\ calls[s].op = "fetchJobsByIds" /\ calls[s].pc = "done"
        /\ calls[s].outcome = "return"
        /\ Len(calls[s].uncachedIds) = 25
        /\ Len(calls[s].units) = 3
        /\ Len(calls[s].units[1].ids) = 10
        /\ Len(calls[s].units[2].ids) = 10
        /\ Len(calls[s].units[3].ids) = 5
        /\ \A u \in 1..3 : calls[s].units[u].attempts = 1
        /\ Len(calls[s].result) = 25

\* ------------------------------------------------------------------------
\* Properties of the retry classification (specification SpecBasic)
\* ------------------------------------------------------------------------
\* an error the retry policy is documented to treat as transient
Transient(error) ==
    \/ error.code \in {"unavailable", "deadline-exceeded"}
    \/ \E i \in 1..Len(error.message) : error.message[i] = "network"

\* C11: once an attempt of a withRetry chain has thrown an error that is not
\* transient (the error for a malformed payload included), the chain has
\* rejected with that very error, has started no attempt and no delay after
\* it, and the calling function has caught that error; this on whichever
\* attempt it happened.
C11_NonRetryableEndsRetry ==
    \A s \in Slots :
        \A u \in 1..Len(calls[s].units) :
            LET unit == calls[s].units[u]
            IN  (unit.failures > 0 /\ ~Transient(unit.thrown))
                => /\ unit.pc = "rejected"
                   /\ unit.error = unit.thrown
                   /\ unit.attempts = unit.failures
                   /\ unit.delays = unit.failures - 1
                   /\ unit.wake = 0
                   /\ calls[s].caught = unit.thrown

\* the malformed-payload error on the third attempt, after two transient
\* failures, has been reported by the calling function
C11_Witness ==
    \E s \in Slots :
        /\ calls[s].op = "fetchJobByIdBasic" /\ calls[s].pc = "done"
        /\ Len(calls[s].units) = 1
        /\ calls[s].units[1].thrown = InvalidDataError
        /\ calls[s].units[1].failures = 3
        /\ calls[s].units[1].delays = 2
        /\ calls[s].units[1].pc = "rejected"
        /\ calls[s].outcome = "throw"
        /\ calls[s].logged = <<[operation |-> "fetchJobById", error |-> InvalidDataError]>>

\* ------------------------------------------------------------------------
\* Properties of argument validation (specification SpecInputs)
\* ------------------------------------------------------------------------
\* slot s takes a new invocation of `op` in this step
Starts(s, op) ==
    /\ started' = started + 1
    /\ calls'[s] # calls[s]
    /\ calls'[s].op = op

\* C12: a fetchJobById invocation whose id is null, not a string, empty or
\* all blanks ends at once with the validation error, has issued no remote
\* request (hence no retry) and leaves the cache as it was.
C12_InvalidIdRejected ==
    [][\A s \in Slots :
         (Starts(s, "fetchJobById") /\ ~NonBlank(calls'[s].input[1]))
         => /\ calls'[s].pc = "done"
            /\ calls'[s].outcome = "throw"
            /\ calls'[s].message = "Please provide a valid job ID"
            /\ calls'[s].units = <<>>
            /\ calls'[s].logged = <<>>
            /\ cache' = cache]_vars

\* an all-blank id has been rejected while the cache was full
C12_Witness ==
    \E s \in Slots :
        /\ calls[s].op = "fetchJobById" /\ calls[s].pc = "done"
        /\ calls[s].input = <<Str(<<" ", " ">>)>>
        /\ calls[s].outcome = "throw"
        /\ calls[s].units = <<>>
        /\ Len(cache) = MAX_CACHE_SIZE

\* C13: a fetchJobsByIds invocation whose argument is not an array, is
\* empty, or holds no valid id returns the empty list at once, has issued no
\* remote request and leaves the cache as it was.
C13_EmptyBatch ==
    [][\A s \in Slots :
         (/\ Starts(s, "fetchJobsByIds")
          /\ calls'[s].via = ""
          /\ ExpectedIds(calls'[s].input) = <<>>)
         => /\ calls'[s].pc = "done"
            /\ calls'[s].outcome = "return"
            /\ calls'[s].result = <<>>
            /\ calls'[s].units = <<>>
            /\ calls'[s].logged = <<>>
            /\ cache' = cache]_vars

\* a list of an empty and an all-blank id has been answered with the empty
\* list while the cache was full
C13_Witness ==
    \E s \in Slots :
        /\ calls[s].op = "fetchJobsByIds" /\ calls[s].pc = "done"
        /\ calls[s].input = <<Str(<<>>), Str(<<" ", " ">>)>>
        /\ calls[s].outcome = "return"
        /\ calls[s].result = <<>>
        /\ calls[s].units = <<>>
        /\ Len(cache) = MAX_CACHE_SIZE

\* ------------------------------------------------------------------------
\* Properties of the failure paths (specification Spec)
\* ------------------------------------------------------------------------
\* slot s leaves its await in this step having caught an error
Fails(s, op) ==
    /\ calls[s].op = op
    /\ calls[s].pc = "await"
    /\ calls'[s].pc = "done"
    /\ calls[s].caught # NoError

\* C14: a fetchJobsByIds(ids, true) call one of whose chunk queries has
\* failed for good ends with the cached value of every valid id in caller
\* order - the entry the cache holds, else the entry it held when the call
\* began, expired or not, else null - when one of them is not null, and
\* with the batch error otherwise.
C14_BatchFallback ==
    [][\A s \in Slots :
         (Fails(s, "fetchJobsByIds") /\ calls[s].useCache)
         => LET call == calls[s]
                held(i) == CacheLookup(cache, JobKey(call.ids[i]))
                fallback == [i \in 1..Len(call.ids) |->
                               IF held(i).present THEN held(i).data
                               ELSE call.startData[i]]
            IN  IF \E i \in 1..Len(call.ids) : fallback[i] # NullData
                THEN /\ calls'[s].outcome = "return"
                     /\ calls'[s].result = fallback
                ELSE /\ calls'[s].outcome = "throw"
                     /\ calls'[s].message =
                            "Unable to load job details. Please try again."]_vars

\* C15: a fetchJobsWithFilters(filters, true) call whose remote query has
\* failed for good, while the cache holds an entry under the key derived
\* from the filters, returns that entry's data instead of throwing.
C15_FilteredStaleFallback ==
    [][\A s \in Slots :
         (/\ Fails(s, "fetchJobsWithFilters")
          /\ calls[s].useCache
          /\ CacheLookup(cache, calls[s].key).present)
         => /\ calls'[s].outcome = "return"
            /\ calls'[s].result = <<CacheLookup(cache, calls[s].key).data>>]_vars

\* ------------------------------------------------------------------------
\* Properties of the posting service (specification SpecPost)
\* ------------------------------------------------------------------------
\* a submission the posting rules accept: a form object whose text fields
\* are non-blank strings, whose salary is a non-blank string or a number
\* with a positive numeric value, whose type is one of the two job types
\* and whose date is a calendar date, with a non-blank user id and name
OtherFieldsGood(jobData, userId, userName) ==
    /\ jobData.t = "object"
    /\ NonBlank(userId) /\ NonBlank(userName)
    /\ \A i \in 1..Len(TrimmedFields) : NonBlank(jobData.f[TrimmedFields[i]])
    /\ jobData.f.type \in JobTypes
    /\ jobData.f.date.t = "str" /\ ~DateParse(jobData.f.date).nan

SalaryGiven(salary) == NonBlank(salary) \/ (salary.t = "num" /\ ToNumber(salary).n # 0)

WellFormedSubmission(jobData, userId, userName) ==
    /\ OtherFieldsGood(jobData, userId, userName)
    /\ SalaryGiven(jobData.f.salary)
    /\ ~ToNumber(jobData.f.salary).nan /\ ToNumber(jobData.f.salary).n > 0

\* C16: a postJob whose submission breaks a posting rule ends before any
\* request is made: it returns a result with success false, no add request
\* was sent and the store is as it was; when the rule broken is the salary
\* one (the salary is given but is not a positive number, everything else
\* being good, as with salary "-5" and type "permanent") the result carries
\* the salary message
C16_ValidationBeforeNetwork ==
    [][\A s \in Slots :
         Starts(s, "postJob") =>
           LET call == calls'[s]
               jobData == call.input[1]
               userId == call.input[2]
               userName == call.input[3]
           IN  /\ ~WellFormedSubmission(jobData, userId, userName) =>
                     /\ call.pc = "done" /\ call.outcome = "return"
                     /\ ~call.result[1].success
                     /\ call.result[1].message # <<>>
                     /\ call.units = <<>>
                     /\ store' = store
               /\ ( /\ OtherFieldsGood(jobData, userId, userName)
                    /\ SalaryGiven(jobData.f.salary)
                    /\ (ToNumber(jobData.f.salary).nan \/ ToNumber(jobData.f.salary).n <= 0) ) =>
                     /\ call.result[1].error = SalaryError.message
                     /\ call.result[1].message = SalaryError.message]_vars

C16_Witness ==
    /\ calls[1].op = "postJob" /\ calls[1].pc = "done"
    /\ calls[1].input =
         <<Object([GoodForm EXCEPT !.salary = Str(<<"-", "5">>)]), GoodUserId, GoodUserName>>
    /\ calls[1].input[1].f.type = Str(<<"permanent">>)
    /\ ~calls[1].result[1].success
    /\ calls[1].result[1].message = <<"Salary", "must", "be", "a", "positive", "number">>
    /\ calls[1].units = <<>>
    /\ store = StorePost

\* the messages of the validation errors
ValidationMessages ==
    {Required(FormFields[i]).message : i \in 1..Len(FormFields)}
    \cup {CannotBeEmpty(FormFields[i]).message : i \in 1..Len(FormFields)}
    \cup {SalaryError.message, JobTypeError.message, DateError.message,
          JobDataError.message, UserIdError.message, UserNameError.message}

\* C17: whenever postJob ends on a validation error (a missing or blank
\* field, a salary that is not positive, a type outside the two job types,
\* a date that does not parse, missing job data, user id or user name), the
\* message of the failure it returns is the message of that error
C17_ValidationVerbatim ==
    \A s \in Slots :
        ( /\ calls[s].op = "postJob" /\ calls[s].pc = "done"
          /\ calls[s].outcome = "return"
          /\ ~calls[s].result[1].success
          /\ calls[s].units = <<>>
          /\ calls[s].result[1].error \in ValidationMessages ) =>
            calls[s].result[1].message = calls[s].result[1].error

\* C18: postJob never throws: a postJob that has not ended has thrown
\* nothing, and one that has ended has returned one result, which either
\* has success true and the stored record with the id the store assigned
\* (nothing having been reported), or has success false and a message, the
\* error having been reported through logError exactly once, under the
\* operation name "postJob"
C18_PostNeverThrows ==
    \A s \in Slots :
        calls[s].op = "postJob" =>
          IF calls[s].pc # "done"
          THEN calls[s].outcome = "none" /\ calls[s].pc = "await"
          ELSE /\ calls[s].outcome = "return"
               /\ Len(calls[s].result) = 1
               /\ LET r == calls[s].result[1]
                  IN  IF r.success
                      THEN /\ Len(r.data) = 1
                           /\ r.data[1].id \in IdSet
                           /\ store[r.data[1].id].exists
                           /\ store[r.data[1].id].fields = r.data[1].fields
                           /\ r.data[1].status = "active"
                           /\ calls[s].units[1].pc = "resolved"
                           /\ calls[s].logged = <<>>
                      ELSE /\ r.message # <<>>
                           /\ r.data = <<>>
                           /\ Len(calls[s].logged) = 1
                           /\ calls[s].logged[1].operation = "postJob"
                           /\ calls[s].logged[1].error.message = r.error
                           /\ \/ calls[s].units = <<>>
                              \/ /\ calls[s].units[1].pc = "rejected"
                                 /\ calls[s].logged[1].error = calls[s].units[1].error

\* a postJob whose request failed three times with "unavailable" has
\* returned the failure and reported the error
C18_Witness ==
    /\ calls[1].op = "postJob" /\ calls[1].pc = "done"
    /\ calls[1].outcome = "return"
    /\ ~calls[1].result[1].success
    /\ calls[1].result[1].message = PostFailedMessage
    /\ Len(calls[1].units) = 1
    /\ calls[1].units[1].attempts = MAX_RETRIES + 1
    /\ calls[1].units[1].failures = MAX_RETRIES + 1
    /\ calls[1].units[1].error.code = "unavailable"
    /\ Len(calls[1].logged) = 1
    /\ store = StorePost

\* a postJob that succeeded in slot r and a fetchJobById(i, false) in slot
\* s, i being the id that postJob returned, to which the store has answered
RoundTrip(r, s) ==
    /\ calls[r].op = "postJob" /\ calls[r].pc = "done"
    /\ calls[r].result[1].success
    /\ calls[s].op = "fetchJobById" /\ calls[s].pc = "done"
    /\ ~calls[s].useCache
    /\ calls[s].input = <<Str(calls[r].result[1].data[1].id)>>
    /\ calls[s].outcome = "return"

\* C19: after postJob has succeeded and returned id i, fetchJobById(i,
\* false) returns a record with id i whose hospital, location, position and
\* schedule are the submitted ones without the blanks around them, whose
\* type is the submitted one, whose salary is the numeric value of the
\* submitted salary, whose status is "active" and whose createdBy and
\* createdById are the user name and user id without the blanks around
\* them
C19_PostFetchRoundTrip ==
    \A r, s \in Slots :
        RoundTrip(r, s) =>
          LET form == calls[r].input[1].f
              userId == calls[r].input[2]
              userName == calls[r].input[3]
              got == calls[s].result
          IN  /\ Len(got) = 1
              /\ got[1].t = "job"
              /\ got[1].v[1].id = calls[r].result[1].data[1].id
              /\ \A i \in 1..Len(TrimmedFields) :
                    got[1].v[1].fields[TrimmedFields[i]] =
                        Str(Stripped(form[TrimmedFields[i]].s))
              /\ got[1].v[1].fields.type = form.type
              /\ got[1].v[1].fields.salary = ToNumber(form.salary)
              /\ got[1].v[1].status = "active"
              /\ got[1].v[1].fields.createdBy = Str(Stripped(userName.s))
              /\ got[1].v[1].fields.createdById = Str(Stripped(userId.s))

C19_Witness ==
    /\ RoundTrip(1, 2)
    /\ calls[1].input = <<Object(GoodForm), GoodUserId, GoodUserName>>
    /\ calls[2].result[1].v[1].fields.hospital = Str(<<"Mercy">>)
    /\ calls[2].result[1].v[1].fields.position = Str(<<"Nurse">>)
    /\ calls[2].result[1].v[1].fields.salary = NumberValue(50)
    /\ calls[2].result[1].v[1].fields.createdBy = Str(<<"Ann">>)
    /\ calls[2].result[1].v[1].createdAt.t = "iso"

\* ------------------------------------------------------------------------
\* Prefetch (specification Spec)
\* ------------------------------------------------------------------------
\* C20: the promise of a prefetchJobs call is resolved (with undefined)
\* from the step that makes the call on, whatever its argument: while the
\* batch fetch it started is still awaiting the store or a retry delay,
\* after that fetch has returned and after it has thrown; a prefetchJobs
\* that starts no batch fetch has returned nothing
C20_PrefetchFireAndForget ==
    \A s \in Slots :
        /\ (calls[s].op = "prefetchJobs" \/ calls[s].via = "prefetchJobs") =>
               calls[s].prefetch = "resolved"
        /\ calls[s].op = "prefetchJobs" =>
               /\ calls[s].pc = "done" /\ calls[s].outcome = "return"
               /\ calls[s].result = <<>> /\ calls[s].units = <<>>

\* the batch fetch of a prefetchJobs call has thrown after its retries
C20_Witness ==
    \E s \in Slots :
        /\ calls[s].via = "prefetchJobs" /\ calls[s].op = "fetchJobsByIds"
        /\ calls[s].pc = "done" /\ calls[s].outcome = "throw"
        /\ calls[s].message = BatchError
        /\ calls[s].units[1].attempts = MAX_RETRIES + 1
        /\ calls[s].prefetch = "resolved"

\* ------------------------------------------------------------------------
\* Error surfacing of the read service (specification Spec)
\* ------------------------------------------------------------------------
ReadOps == {"fetchAllJobs", "fetchJobById", "fetchJobsByIds", "fetchJobsWithFilters"}

\* the user-facing messages an operation may reject with
UserMessages(op) ==
    CASE op = "fetchAllJobs" -> {AllJobsError}
      [] op = "fetchJobById" -> {InvalidIdError, JobDetailsError}
      [] op = "fetchJobsByIds" -> {BatchError}
      [] op = "fetchJobsWithFilters" -> {FilteredError}

\* C21: a read operation that rejects does so with one of its user-facing
\* messages (the id-validation message or its "unable to load" message),
\* whatever the store failed with; the message is never the code of the
\* error that was caught, and no data comes with it
C21_GenericErrorsOnly ==
    \A s \in Slots :
        (calls[s].op \in ReadOps /\ calls[s].outcome = "throw") =>
            /\ calls[s].message \in UserMessages(calls[s].op)
            /\ calls[s].message \notin {e.code : e \in RemoteErrors}
            /\ calls[s].result = <<>>

\* two reads have rejected after the store refused them, one of them a
\* filtered read, each with its own message
C21_Witness ==
    /\ calls[1].op = "fetchJobsWithFilters" /\ calls[1].outcome = "throw"
    /\ calls[1].caught.code = "permission-denied"
    /\ calls[1].message = FilteredError
    /\ calls[2].op = "fetchJobsByIds" /\ calls[2].outcome = "throw"
    /\ calls[2].caught.code = "unavailable"
    /\ calls[2].message = BatchError

\* C22: a fetchJobById(id, true) call that found the entry job_<id> present
\* but expired and whose remote attempts all failed returns that entry's
\* data; a fetchJobById(id, true) call throws the "unable to load job
\* details" error only when there was no entry job_<id> when it was called
C22_StaleFallbackJobById ==
    \A s \in Slots :
        LET call == calls[s]
        IN  (/\ call.op = "fetchJobById"
             /\ call.pc = "done"
             /\ call.useCache
             /\ call.caught # NoError)
            => /\ (call.startEntry.present /\ ~call.startEntry.young) =>
                     (call.outcome = "return" /\ call.result = <<call.startEntry.data>>)
               /\ call.outcome = "throw" =>
                     (call.message = JobDetailsError /\ ~call.startEntry.present)

\* C23: a fetchAllJobs(false), fetchJobById(id, false) or
\* fetchJobsByIds(ids, false) call whose remote fetch failed after its
\* retries has thrown its own "unable to load" message and has returned
\* nothing from the cache, whatever the cache holds
C23_NoFallbackWithoutCache ==
    \A s \in Slots :
        LET call == calls[s]
        IN  (/\ call.op \in {"fetchAllJobs", "fetchJobById", "fetchJobsByIds"}
             /\ call.pc = "done"
             /\ ~call.useCache
             /\ call.caught # NoError)
            => /\ call.outcome = "throw"
               /\ call.message = (CASE call.op = "fetchAllJobs" -> AllJobsError
                                     [] call.op = "fetchJobById" -> JobDetailsError
                                     [] call.op = "fetchJobsByIds" -> BatchError)
               /\ call.result = <<>>
               /\ ~call.stale

\* fetchAllJobs(false) has thrown while the cache holds a fresh aggregate
\* entry
C23_Witness ==
    \E s \in Slots :
        /\ calls[s].op = "fetchAllJobs" /\ ~calls[s].useCache
        /\ calls[s].pc = "done" /\ calls[s].outcome = "throw"
        /\ calls[s].units[1].failures = MAX_RETRIES + 1
        /\ Observe(cache, AllJobsKey, now).young
        /\ Truthy(Observe(cache, AllJobsKey, now).data)

\* ------------------------------------------------------------------------
\* Write-through of fetchAllJobs (specification SpecThrough)
\* ------------------------------------------------------------------------
\* C24: when fetchAllJobs returns a freshly fetched list, the cache holds,
\* for every job of that list, an entry job_<id> whose data is that job
C24_WriteThrough ==
    [][\A s \in Slots :
         ( /\ calls[s].op = "fetchAllJobs" /\ calls[s].pc = "await"
           /\ AllResolved(calls[s])
           /\ calls'[s].pc = "done" ) =>
             /\ calls'[s].outcome = "return"
             /\ calls'[s].result = <<calls[s].value>>
             /\ \A i \in 1..Len(calls[s].value.v) :
                   LET job == calls[s].value.v[i]
                       entry == CacheLookup(cache', JobKey(job.id))
                   IN  entry.present /\ entry.data = JobData(job)]_vars

\* C25: a fetchJobById whose point lookup found a document with a payload
\* that is not a non-null object, and whose requests the store never
\* failed, ends with an error and stores nothing in the cache
C25_MalformedPayloadFails ==
    [][\A s \in Slots :
         ( /\ calls[s].op = "fetchJobById" /\ calls[s].pc = "await"
           /\ calls'[s].pc = "done"
           /\ store[calls[s].ids[1]].exists
           /\ ~store[calls[s].ids[1]].wellFormed
           /\ calls[s].units[1].thrown \in {NoError, InvalidDataError} ) =>
             /\ calls'[s].outcome = "throw"
             /\ cache' = cache]_vars

\* ------------------------------------------------------------------------
\* Not-found results (specification Spec)
\* ------------------------------------------------------------------------
\* C26: when the store has answered a fetchJobById lookup that the
\* document does not exist, the call returns null, has reported no error
\* and made no attempt after that answer, and the cache then holds null
\* under job_<id> with the current time, with useCache true and false
C26_NotFoundIsValue ==
    [][\A s \in Slots :
         ( /\ calls[s].op = "fetchJobById" /\ calls[s].pc = "await"
           /\ calls'[s].pc = "done"
           /\ AllResolved(calls[s])
           /\ ~store[calls[s].ids[1]].exists ) =>
             /\ calls'[s].outcome = "return"
             /\ calls'[s].result = <<NullData>>
             /\ calls'[s].logged = <<>>
             /\ calls'[s].units[1].attempts = calls'[s].units[1].failures + 1
             /\ LET entry == CacheLookup(cache', JobKey(calls[s].ids[1]))
                IN  entry.present /\ entry.data = NullData /\ entry.timestamp = now]_vars

\* fetchJobById(" c ", false) has returned null at the first attempt and
\* the cache holds null under job_c
C26_Witness ==
    \E s \in Slots :
        /\ calls[s].op = "fetchJobById" /\ ~calls[s].useCache
        /\ calls[s].input = <<Str(<<" ", "c", " ">>)>>
        /\ calls[s].pc = "done" /\ calls[s].outcome = "return"
        /\ calls[s].result = <<NullData>>
        /\ calls[s].units[1].attempts = 1
        /\ CacheLookup(cache, JobKey(<<"c">>)).present
        /\ CacheLookup(cache, JobKey(<<"c">>)).data = NullData

\* C27: when fetchJobsByIds continues after all its chunk queries have
\* succeeded, every missed id that no chunk returned is null in the result
\* and has an entry job_<id> holding null in the cache, with useCache true
\* and false
C27_BatchNotFoundCached ==
    [][\A s \in Slots :
         ( /\ calls[s].op = "fetchJobsByIds" /\ calls[s].pc = "await"
           /\ calls'[s].pc = "done"
           /\ AllResolved(calls[s]) ) =>
             /\ calls'[s].outcome = "return"
             /\ Len(calls'[s].result) = Len(calls[s].ids)
             /\ \A i \in 1..Len(calls[s].ids) :
                   LET id == calls[s].ids[i]
                       entry == CacheLookup(cache', JobKey(id))
                   IN  ( /\ \E k \in 1..Len(calls[s].uncachedIds) :
                                calls[s].uncachedIds[k] = id
                         /\ ~MapHas(calls[s].fetchedJobs, id) ) =>
                           /\ calls'[s].result[i] = NullData
                           /\ entry.present /\ entry.data = NullData]_vars

\* ------------------------------------------------------------------------
\* Prefetch filtering (specification Spec)
\* ------------------------------------------------------------------------
\* C28: the chunk queries of the batch fetch that a prefetchJobs call
\* starts ask for no id whose entry job_<id> was fresh when prefetchJobs
\* was called, an entry holding null included; in particular no query is
\* issued when every id is fresh
C28_PrefetchSkipsFresh ==
    [][\A s \in Slots :
         ( /\ started' = started + 1
           /\ calls'[s] # calls[s]
           /\ calls'[s].via = "prefetchJobs" ) =>
             \A u \in 1..Len(calls'[s].units) :
                 \A k \in 1..Len(calls'[s].units[u].ids) :
                     ~Observe(cache, JobKey(calls'[s].units[u].ids[k]), now).young]_vars

\* ------------------------------------------------------------------------
\* Error reporting (specification Spec)
\* ------------------------------------------------------------------------
\* an invocation that ended in a user-facing error, a stale-fallback
\* return or a result with success false
Surfaced(call) ==
    /\ call.pc = "done"
    /\ \/ call.outcome = "throw"
       \/ call.stale
       \/ call.op = "postJob" /\ call.outcome = "return" /\ ~call.result[1].success

\* C29: every fetchAllJobs, fetchJobById, fetchJobsByIds,
\* fetchJobsWithFilters or postJob invocation that ended in a user-facing
\* error, a stale-fallback return or a success=false result has called
\* logError under its operation name, the id-validation failure of
\* fetchJobById included
C29_ReportedBeforeSurfaced ==
    \A s \in Slots :
        (calls[s].op \in ReadOps \cup {"postJob"} /\ Surfaced(calls[s])) =>
            /\ calls[s].logged # <<>>
            /\ \A i \in 1..Len(calls[s].logged) :
                  calls[s].logged[i].operation = calls[s].op

\* what the job store holds for an id, as the read operations present it
StoredJob(st, id) ==
    IF (\E k \in 1..Len(DocIds) : DocIds[k] = id) /\ st[id].exists
    THEN processJobData(id, st[id])
    ELSE NullData

\* C30: the list returned by a fetchJobsByIds call whose chunk queries were
\* all answered is determined by the ids, the entries found in the cache
\* when the call began and the job store, whatever the order in which the
\* queries were answered: each position holds the cached value of its id,
\* or else what the store holds for that id.
C30_ChunkOrderIrrelevant ==
    \A s \in Slots :
        LET call == calls[s]
        IN  (/\ call.op = "fetchJobsByIds"
             /\ call.pc = "done" /\ call.outcome = "return"
             /\ call.units # <<>> /\ AllResolved(call))
            => call.result =
                   [i \in 1..Len(call.ids) |->
                      IF MapHas(call.cachedResults, call.ids[i])
                      THEN MapGet(call.cachedResults, call.ids[i])
                      ELSE StoredJob(store, call.ids[i])]

\* a call of three chunks has returned after its last chunk was answered
\* first and its first chunk last, and the job of the first and twelfth
\* id, fetched by two chunks, is at both positions
C30_Witness ==
    \E s \in Slots :
        /\ calls[s].op = "fetchJobsByIds" /\ calls[s].pc = "done"
        /\ calls[s].outcome = "return"
        /\ calls[s].order = <<3, 2, 1>>
        /\ Len(calls[s].result) = 25
        /\ Truthy(calls[s].result[1])
        /\ calls[s].result[12] = calls[s].result[1]
        /\ ~Truthy(calls[s].result[10])

\* C31: nothing cancels the chunk queries of a fetchJobsByIds call that has
\* already ended (with its fallback list or with an error): the call's
\* outcome stays as it is, and each chunk still in flight goes on exactly as
\* before the end of the call (an answered query writes its jobs to the
\* cache, a retryable failure with retries left starts the delay, the delay
\* is followed by the next attempt).
C31_NoCancellation ==
    [][\A s \in Slots : \A u \in 1..Len(calls[s].units) :
          LET call == calls[s]
              unit == call.units[u]
              jobs == ProcessedJobs(store, SnapshotIn(store, unit.ids))
          IN  (/\ call.op = "fetchJobsByIds" /\ call.pc = "done"
               /\ unit.pc \in {"net", "sleep"})
              => /\ calls'[s].op = call.op /\ calls'[s].pc = "done"
                 /\ calls'[s].outcome = call.outcome
                 /\ calls'[s].result = call.result
                 /\ calls'[s].message = call.message
                 /\ Len(calls'[s].units) = Len(call.units)
                 /\ LET after == calls'[s].units[u]
                    IN  \/ after = unit
                        \/ /\ unit.pc = "net" /\ after.pc = "resolved"
                           /\ cache' = CacheJobs(cache, jobs, now)
                        \/ /\ unit.pc = "net" /\ after.pc = "sleep"
                           /\ unit.retries > 0 /\ cache' = cache
                        \/ /\ unit.pc = "net" /\ after.pc = "rejected"
                           /\ cache' = cache
                        \/ /\ unit.pc = "sleep" /\ after.pc = "net"
                           /\ after.attempts = unit.attempts + 1
                           /\ cache' = cache]_vars

\* the first call, reading through the cache, has thrown, so no id of its
\* list had an entry in the cache when it ended; now all of its chunks have
\* settled, one of them after a retry, and the cache holds the job of its
\* first id
C31_Witness ==
    /\ started = 1
    /\ calls[1].op = "fetchJobsByIds" /\ calls[1].pc = "done"
    /\ calls[1].outcome = "throw" /\ calls[1].useCache
    /\ Len(calls[1].units) = 3
    /\ ~InFlight(calls[1])
    /\ \E u \in 1..3 : calls[1].units[u].pc = "resolved"
                         /\ calls[1].units[u].attempts > 1
    /\ CacheLookup(cache, JobKey(calls[1].ids[1])).present
    /\ Truthy(CacheLookup(cache, JobKey(calls[1].ids[1])).data)

\* C32: a fetchAllJobs(true) call that finds a fresh aggregate entry (an
\* empty list included) returns the entry's list, issues no remote query and
\* leaves the cache as it is; a fetchAllJobs(false) call issues a remote
\* query whatever the cache holds, and when the query succeeds the aggregate
\* entry holds the list just read, stamped with the current time.
C32_AllJobsShortCircuit ==
    [][\A s \in Slots :
          /\ (Starts(s, "fetchAllJobs") /\ calls'[s].useCache
                 /\ Observe(cache, AllJobsKey, now).young)
               => /\ calls'[s].pc = "done" /\ calls'[s].outcome = "return"
                  /\ calls'[s].result = <<CacheLookup(cache, AllJobsKey).data>>
                  /\ calls'[s].units = <<>>
                  /\ cache' = cache
          /\ (Starts(s, "fetchAllJobs") /\ ~calls'[s].useCache)
               => /\ calls'[s].pc = "await"
                  /\ Len(calls'[s].units) = 1
                  /\ calls'[s].units[1].pc = "net"
          /\ (/\ calls[s].op = "fetchAllJobs" /\ ~calls[s].useCache
              /\ calls[s].pc = "await" /\ calls'[s].pc = "done"
              /\ calls'[s].caught = NoError)
               => /\ calls'[s].outcome = "return"
                  /\ calls'[s].result = <<calls'[s].value>>
                  /\ calls'[s].value =
                         ListData(ProcessedJobs(calls[s].read.store,
                                                SnapshotAll(calls[s].read.store)))
                  /\ CacheLookup(cache', AllJobsKey) =
                         [present |-> TRUE, data |-> calls'[s].value,
                          timestamp |-> now]]_vars

\* a fetchAllJobs(true) call started after time has passed found the fresh
\* aggregate entry of an empty list and has returned it without a query,
\* although the store holds a job by now
C32_Witness ==
    \E s \in Slots :
        /\ calls[s].op = "fetchAllJobs" /\ calls[s].useCache
        /\ calls[s].pc = "done" /\ calls[s].outcome = "return"
        /\ calls[s].units = <<>>
        /\ calls[s].startEntry.young
        /\ calls[s].result = <<ListData(<<>>)>>
        /\ now > 0
        /\ store # EmptyStore

\* C33: a getServiceHealth call leaves every cache entry as it is, expired
\* ones included, and reports total = valid + expired, with total the number
\* of entries in the cache and valid the number of entries younger than
\* CACHE_TIME at the time of the call.
C33_HealthIsPureRead ==
    [][(probe'.op = "health" /\ probe'.seq = probe.seq + 1)
          => /\ cache' = cache
             /\ health'.total = Len(cache)
             /\ health'.valid =
                    Cardinality({i \in 1..Len(cache) :
                                   now - cache[i].timestamp < CACHE_TIME})
             /\ health'.total = health'.valid + health'.expired]_vars

\* the last report counted fresh and expired entries, and all of them are
\* still in the cache
C33_Witness ==
    /\ probe.op = "health"
    /\ health.valid > 0
    /\ health.expired > 0
    /\ Len(cache) = health.valid + health.expired
    /\ \E i \in 1..Len(cache) : probe.at - cache[i].timestamp >= CACHE_TIME

\* C34: the list returned by the per-id fetchJobsByIds holds at position i
\* the job of the i-th valid id of the caller's list, or null.
C34_PerIdOrderPreserved ==
    \A s \in Slots :
        (/\ calls[s].op = "fetchJobsByIdsPerId"
         /\ calls[s].pc = "done" /\ calls[s].outcome = "return")
        => /\ Len(calls[s].result) = Len(calls[s].ids)
           /\ \A i \in 1..Len(calls[s].result) :
                 \/ calls[s].result[i] = NullData
                 \/ calls[s].result[i].v[1].id = calls[s].ids[i]

\* C35: when every remote request is answered, with success or with an
\* error, every call of fetchAllJobs, fetchJobById, fetchJobsByIds,
\* fetchJobsWithFilters and postJob that awaits the store eventually ends,
\* and no wrapped operation is attempted more than MAX_RETRIES + 1 = 3 times
\* (3 times the number of chunks for a batch).
C35_Termination ==
    /\ (calls[1].pc = "await") ~> (calls[1].pc = "done")
    /\ [](\A s \in Slots :
            /\ \A u \in 1..Len(calls[s].units) :
                  calls[s].units[u].attempts <= MAX_RETRIES + 1
            /\ SumAttempts(calls[s].units) <= 3 * Len(calls[s].units))

\* a batch of two chunks has ended after three attempts of each chunk
C35_Witness ==
    \E s \in Slots :
        /\ calls[s].op = "fetchJobsByIds" /\ calls[s].pc = "done"
        /\ Len(calls[s].units) = 2
        /\ ~InFlight(calls[s])
        /\ SumAttempts(calls[s].units) = 6

\* C37: storing a value under a key that is present while the cache holds
\* MAX_CACHE_SIZE entries updates that key's data and timestamp, leaves every
\* other entry as it is, and leaves the cache with MAX_CACHE_SIZE entries.
C37_OverwriteAtCapacity ==
    [][(/\ probe'.op = "put" /\ probe'.seq = probe.seq + 1
        /\ probe'.before.present
        /\ Len(cache) = MAX_CACHE_SIZE)
          => /\ Len(cache') = MAX_CACHE_SIZE
             /\ CacheLookup(cache', probe'.key) =
                    [present |-> TRUE, data |-> probe'.data, timestamp |-> now]
             /\ \A i \in 1..Len(cache) :
                    cache[i].key # probe'.key
                      => \E j \in 1..Len(cache') : cache'[j] = cache[i]]_vars

\* C36: when a second fetchAllJobs call was issued while the first was still
\* awaiting the store (the first holds slot 1, the second slot 2) and both
\* have ended after reading the store, the list left in the aggregate cache
\* entry is not older than the list the later-issued call read (the store
\* only gains jobs, so an older read is a shorter list).
C36_NoStaleOverwrite ==
    (/\ started = 2
     /\ \A s \in 1..2 :
           /\ calls[s].op = "fetchAllJobs"
           /\ calls[s].pc = "done" /\ ~InFlight(calls[s])
           /\ calls[s].outcome = "return" /\ ~calls[s].stale
           /\ calls[s].units # <<>>)
    => /\ CacheLookup(cache, AllJobsKey).present
       /\ Len(CacheLookup(cache, AllJobsKey).data.v) >= Len(calls[2].value.v)

\* C38: the store never holds more job documents than postJob calls were
\* made (the store starts empty and only postJob adds to it): a call adds at
\* most one document.
C38_PostAddsAtMostOne ==
    Cardinality({i \in IdSet : store[i].exists}) <= started

\* C39: a background refresh is started by loadJobs only over hook-cached
\* data older than 1 minute and not older than 3 minutes, which it shows;
\* the list the refresh stores in the hook cache is the one its fetchAllJobs
\* call read from the remote store (the call made a request and did not
\* fall back to cached data); a failed refresh changes neither the jobs
\* state nor the error state (nor the hook cache).
C39_BackgroundRefresh ==
    [][\A s \in Slots :
         /\ (hook.waiting[s] = "none" /\ hook'.waiting[s] = "background")
              => /\ now - hook.timestamp > STALE_TIME
                 /\ now - hook.timestamp <= HOOK_CACHE_TIME
                 /\ Truthy(hook.data)
                 /\ hook'.jobs = hook.data
         /\ (hook.waiting[s] = "background" /\ hook'.waiting[s] = "none")
              => IF calls[s].outcome = "return"
                 THEN /\ hook'.data = calls[s].result[1]
                      /\ hook'.timestamp = now
                      /\ calls[s].units # <<>>
                      /\ ~calls[s].stale
                 ELSE /\ hook'.jobs = hook.jobs
                      /\ hook'.error = hook.error
                      /\ hook'.data = hook.data]_vars
====
